---- MODULE Spec2Model ----
(***************************************************************************)
(* Model of swarm/api/api.go: the MultiResolver chain, Api.Resolve and the *)
(* manifest facade (Put, Get, Modify, AddFile, RemoveFile, AppendFile)     *)
(* over an asynchronous content-addressed store.                           *)
(*                                                                         *)
(* Strings are sequences of one-character strings, so that path.Ext, the   *)
(* hex test of uri.Key and the quoting of fmt.Sprintf are computed and not *)
(* assumed.                                                                *)
(***************************************************************************)
EXTENDS Integers, Sequences, FiniteSets, TLC

\* ---------------------------------------------------------------- bounds
MaxNameLen == 3     \* longest address / name handed to a resolver
HashBytes == 1      \* bytes of a content digest (32 in the program)
MaxBackends == 3    \* resolver backends registered over all chains

MaxLen == 2         \* longest file content, offset and size of AppendFile
MaxCtLen == 1       \* longest content type handed to Put
MaxPuts == 1        \* Put calls in one behaviour
MaxUpdates == 2     \* resource updates in one behaviour
MaxEdits == 2       \* Put, Modify, AddFile, RemoveFile and AppendFile calls on a manifest tree
MaxPathLen == 2     \* longest path of a manifest entry
MaxPeriod == 2      \* largest period handed to ResourceLookup
MaxVersion == 2     \* largest version handed to ResourceLookup

VARIABLES
    resolvers,      \* MultiResolver.resolvers: TLD -> sequence of backends
    dnsSet,         \* Api.dns # nil
    rop,            \* the last resolver operation: its arguments, calls, result
    ap,             \* one AppendFile call: its arguments and the buffer it builds
    store,          \* the content store: key -> block, the blocks durably stored
    pending,        \* writes issued whose completion signal is not yet satisfied
    resources,      \* the resource collaborator: name -> latest update
    handed,         \* the root keys returned to callers, with what returned them
    last,           \* the facade call that returned last, with its results
    nops,           \* calls made so far, by kind
    mod,            \* the Modify call of each concurrent caller: its place and its trie
    waiter,         \* a call of the wait function Put returned: the signals it still awaits
    lookup,         \* a round trip to the resource collaborator: its context, its outcome
    pss             \* a pss node: its address, its message handler, the messages it handled

rvars == <<resolvers, dnsSet, rop>>
svars == <<store, pending, resources, handed, last, nops, mod, waiter, lookup, pss>>
vars == <<resolvers, dnsSet, rop, ap, store, pending, resources, handed, last, nops, mod, waiter, lookup, pss>>

\* ---------------------------------------------------------------- strings
NameChars == {"a", ".", "/"}
HexChars == {"a"}

RECURSIVE SeqsUpTo(_, _)
SeqsUpTo(S, n) ==
    IF n = 0 THEN {<<>>}
    ELSE LET shorter == SeqsUpTo(S, n - 1)
         IN  shorter \cup {Append(s, c) : s \in {t \in shorter : Len(t) = n - 1}, c \in S}

Names == SeqsUpTo(NameChars, MaxNameLen) \ {<<>>}

\* ---------------------------------------------------------------- errors
NoErr == [type |-> "nil", info |-> <<>>]
Err(t, i) == [type |-> t, info |-> i]

\* api.go:89 NewNoResolverError
NewNoResolverError(tld) == Err("NoResolverError", tld)

\* ---------------------------------------------------------------- keys
HexLen == 2 * HashBytes
NilKey == <<"nil">>
ZeroHash == [i \in 1..HashBytes |-> <<"0", "0">>]

\* common.Hex2Bytes: two hex digits per byte
Hex2Bytes(s) == [i \in 1..(Len(s) \div 2) |-> <<s[2 * i - 1], s[2 * i]>>]

\* ------------------------------------------------------- resolver backends
\* A backend either resolves every name to its hash or fails with its error.
Backends == {"ok1", "ok2", "fail1", "fail2"}
BackendHash(b) == [i \in 1..HashBytes |-> <<"f", IF b = "ok1" THEN "1" ELSE "2">>]
BackendResolve(b, name) ==
    IF b \in {"ok1", "ok2"} THEN [h |-> BackendHash(b), err |-> NoErr]
    ELSE [h |-> ZeroHash, err |-> Err("backend", <<b>>)]

TLDs == {<<>>, <<"a">>}

\* path.Ext: the suffix from the last dot of the last slash-separated element
RECURSIVE ExtFrom(_, _)
ExtFrom(p, i) ==
    IF i = 0 THEN <<>>
    ELSE IF p[i] = "/" THEN <<>>
    ELSE IF p[i] = "." THEN SubSeq(p, i, Len(p))
    ELSE ExtFrom(p, i - 1)

Ext(p) == ExtFrom(p, Len(p))

\* the map read m.resolvers[tld]: a missing key reads as the nil slice
Chain(m, tld) == IF tld \in DOMAIN m THEN m[tld] ELSE <<>>

\* mutant: the default chain is appended to the chain of the TLD
getResolveValidatorFallThrough(m, name) ==
    LET rs == Chain(m, <<>>)
        ext == Ext(name)
        tld == IF ext # <<>> THEN Tail(ext) ELSE <<>>
    IN  IF ext # <<>> /\ tld \in DOMAIN m
        THEN [rs |-> [i \in 1..Len(m[tld]) |-> <<tld, i>>]
                      \o [i \in 1..Len(rs) |-> <<<<>>, i>>],
              err |-> NoErr]
        ELSE IF Len(rs) = 0 THEN [rs |-> <<>>, err |-> NewNoResolverError(tld)]
        ELSE [rs |-> [i \in 1..Len(rs) |-> <<<<>>, i>>], err |-> NoErr]

\* mutant: a name with a TLD never falls back to the default chain
getResolveValidatorNoDefault(m, name) ==
    LET rs == Chain(m, <<>>)
        ext == Ext(name)
        tld == IF ext # <<>> THEN Tail(ext) ELSE <<>>
    IN  IF ext # <<>> /\ tld \in DOMAIN m
        THEN [rs |-> [i \in 1..Len(m[tld]) |-> <<tld, i>>], err |-> NoErr]
        ELSE IF Len(rs) = 0 \/ ext # <<>> THEN [rs |-> <<>>, err |-> NewNoResolverError(tld)]
        ELSE [rs |-> [i \in 1..Len(rs) |-> <<<<>>, i>>], err |-> NoErr]

\* api.go:190 MultiResolver.getResolveValidator. The chain is returned as the
\* places <<tld, index>> of its backends in m.
getResolveValidator(m, name) ==
    LET rs == Chain(m, <<>>)
        ext == Ext(name)
        tld == IF ext # <<>> THEN Tail(ext) ELSE <<>>
    IN  IF ext # <<>> /\ tld \in DOMAIN m
        THEN [rs |-> [i \in 1..Len(m[tld]) |-> <<tld, i>>], err |-> NoErr]
        ELSE IF Len(rs) = 0 THEN [rs |-> <<>>, err |-> NewNoResolverError(tld)]
        ELSE [rs |-> [i \in 1..Len(rs) |-> <<<<>>, i>>], err |-> NoErr]

\* mutant: the loop goes on after a backend has succeeded
RECURSIVE ResolveLoopToEnd(_, _, _, _, _)
ResolveLoopToEnd(m, rs, addr, i, acc) ==
    IF i > Len(rs) THEN acc
    ELSE LET r == BackendResolve(m[rs[i][1]][rs[i][2]], addr)
         IN  ResolveLoopToEnd(m, rs, addr, i + 1,
                              [h |-> r.h, err |-> r.err, calls |-> Append(acc.calls, rs[i])])

\* mutant: a backend that failed is called once more before the next one
RECURSIVE ResolveLoopRetry(_, _, _, _, _)
ResolveLoopRetry(m, rs, addr, i, acc) ==
    IF i > Len(rs) THEN acc
    ELSE LET r == BackendResolve(m[rs[i][1]][rs[i][2]], addr)
             now == [h |-> r.h, err |-> r.err, calls |-> Append(acc.calls, rs[i])]
             again == [now EXCEPT !.calls = Append(@, rs[i])]
         IN  IF r.err = NoErr THEN now ELSE ResolveLoopRetry(m, rs, addr, i + 1, again)

\* the loop of api.go:149-155; acc holds the named results h, err and the calls made
RECURSIVE ResolveLoop(_, _, _, _, _)
ResolveLoop(m, rs, addr, i, acc) ==
    IF i > Len(rs) THEN acc
    ELSE LET r == BackendResolve(m[rs[i][1]][rs[i][2]], addr)
             now == [h |-> r.h, err |-> r.err, calls |-> Append(acc.calls, rs[i])]
         IN  IF r.err = NoErr THEN now ELSE ResolveLoop(m, rs, addr, i + 1, now)

\* api.go:144 MultiResolver.Resolve
MultiResolverResolve(m, addr) ==
    LET v == getResolveValidator(m, addr)
    IN  IF v.err # NoErr THEN [h |-> ZeroHash, err |-> v.err, calls |-> <<>>]
        ELSE ResolveLoop(m, v.rs, addr, 1, [h |-> ZeroHash, err |-> NoErr, calls |-> <<>>])

\* ----------------------------------------------------------- ValidateOwner
\* Owner of a backend: the backends that resolve answer with their owner
\* address, the others fail with their error
Addresses == {"x"}
BackendOwner(b, node) ==
    IF b = "ok1" THEN [addr |-> "x", err |-> NoErr]
    ELSE IF b = "ok2" THEN [addr |-> "y", err |-> NoErr]
    ELSE [addr |-> "", err |-> Err("backend", <<b>>)]

\* m.nameHash(name): the node of a name, injective
nameHash(name) == <<"node", name>>

\* mutant: the error of a backend that is not the last one is returned
RECURSIVE OwnerLoopNoHide(_, _, _, _, _, _)
OwnerLoopNoHide(m, rs, name, address, i, acc) ==
    IF i > Len(rs) THEN [ok |-> FALSE, err |-> acc.err, calls |-> acc.calls]
    ELSE LET r == BackendOwner(m[rs[i][1]][rs[i][2]], nameHash(name))
             calls == Append(acc.calls, rs[i])
         IN  IF r.err = NoErr THEN [ok |-> r.addr = address, err |-> NoErr, calls |-> calls]
             ELSE [ok |-> FALSE, err |-> r.err, calls |-> calls]

\* the loop of api.go:164-171
RECURSIVE OwnerLoop(_, _, _, _, _, _)
OwnerLoop(m, rs, name, address, i, acc) ==
    IF i > Len(rs) THEN [ok |-> FALSE, err |-> acc.err, calls |-> acc.calls]
    ELSE LET r == BackendOwner(m[rs[i][1]][rs[i][2]], nameHash(name))
             calls == Append(acc.calls, rs[i])
         IN  IF r.err = NoErr THEN [ok |-> r.addr = address, err |-> NoErr, calls |-> calls]
             ELSE OwnerLoop(m, rs, name, address, i + 1, [err |-> r.err, calls |-> calls])

\* api.go:158 MultiResolver.ValidateOwner
ValidateOwner(m, name, address) ==
    LET v == getResolveValidator(m, name)
    IN  IF v.err # NoErr THEN [ok |-> FALSE, err |-> v.err, calls |-> <<>>]
        ELSE OwnerLoop(m, v.rs, name, address, 1, [err |-> v.err, calls |-> <<>>])

\* ---------------------------------------------------------- HeaderByNumber
\* HeaderByNumber of a backend: whether a backend serves a header does not
\* follow from whether it resolves names. ok1 serves every height, fail1 the
\* height 0 only, the others fail with their error
Heights == {0, 1}
NilHeader == [by |-> "nil", nr |-> 0]
BackendHeader(b, blockNr) ==
    IF b = "ok1" \/ (b = "fail1" /\ blockNr = 0)
    THEN [header |-> [by |-> b, nr |-> blockNr], err |-> NoErr]
    ELSE [header |-> NilHeader, err |-> Err("backend", <<b, "header">>)]

\* mutant: the error of the first backend ends the calls
RECURSIVE HeaderLoopFirstOnly(_, _, _, _, _)
HeaderLoopFirstOnly(m, rs, blockNr, i, acc) ==
    IF i > Len(rs) THEN [header |-> NilHeader, err |-> acc.err, calls |-> acc.calls]
    ELSE LET r == BackendHeader(m[rs[i][1]][rs[i][2]], blockNr)
             calls == Append(acc.calls, rs[i])
         IN  IF r.err = NoErr THEN [header |-> r.header, err |-> NoErr, calls |-> calls]
             ELSE [header |-> NilHeader, err |-> r.err, calls |-> calls]

\* the loop of api.go:179-186
RECURSIVE HeaderLoop(_, _, _, _, _)
HeaderLoop(m, rs, blockNr, i, acc) ==
    IF i > Len(rs) THEN [header |-> NilHeader, err |-> acc.err, calls |-> acc.calls]
    ELSE LET r == BackendHeader(m[rs[i][1]][rs[i][2]], blockNr)
             calls == Append(acc.calls, rs[i])
         IN  IF r.err = NoErr THEN [header |-> r.header, err |-> NoErr, calls |-> calls]
             ELSE HeaderLoop(m, rs, blockNr, i + 1, [err |-> r.err, calls |-> calls])

\* api.go:174 MultiResolver.HeaderByNumber
HeaderByNumber(m, name, blockNr) ==
    LET v == getResolveValidator(m, name)
    IN  IF v.err # NoErr THEN [header |-> NilHeader, err |-> v.err, calls |-> <<>>]
        ELSE HeaderLoop(m, v.rs, blockNr, 1, [err |-> v.err, calls |-> <<>>])

\* ---------------------------------------------------------------- URI
Schemes == {"bzz", "bzz-immutable"}

\* uri.Immutable
Immutable(uri) == uri.Scheme = "bzz-immutable"

isHexHash(s) == Len(s) = HexLen /\ \A i \in 1..Len(s) : s[i] \in HexChars

\* uri.Key: the address as a content hash, nil when it is not one
Key(uri) == IF isHexHash(uri.Addr) THEN Hex2Bytes(uri.Addr) ELSE NilKey

\* mutant: the resolver is asked before the immutable scheme is looked at
ApiResolveDnsFirst(uri, dns, m) ==
    LET r == MultiResolverResolve(m, uri.Addr)
    IN  IF dns /\ r.err = NoErr THEN [key |-> r.h, err |-> NoErr, calls |-> r.calls, asked |-> TRUE]
        ELSE IF Key(uri) = NilKey
        THEN [key |-> NilKey, err |-> Err("immutable address not a content hash", uri.Addr),
              calls |-> IF dns THEN r.calls ELSE <<>>, asked |-> dns]
        ELSE [key |-> Key(uri), err |-> NoErr,
              calls |-> IF dns THEN r.calls ELSE <<>>, asked |-> dns]

\* mutant: an address that is a hash is never handed to the resolver
ApiResolveHashFirst(uri, dns, m) ==
    LET r == MultiResolverResolve(m, uri.Addr)
    IN  IF Key(uri) # NilKey
        THEN [key |-> Key(uri), err |-> NoErr, calls |-> <<>>, asked |-> FALSE]
        ELSE IF Immutable(uri)
        THEN [key |-> NilKey, err |-> Err("immutable address not a content hash", uri.Addr),
              calls |-> <<>>, asked |-> FALSE]
        ELSE IF ~dns
        THEN [key |-> NilKey, err |-> Err("no DNS to resolve name", uri.Addr),
              calls |-> <<>>, asked |-> FALSE]
        ELSE IF r.err = NoErr
        THEN [key |-> r.h, err |-> NoErr, calls |-> r.calls, asked |-> TRUE]
        ELSE [key |-> NilKey, err |-> r.err, calls |-> r.calls, asked |-> TRUE]

\* mutant: the resolver is asked, but an address that is a hash wins over its answer
ApiResolveKeepsHash(uri, dns, m) ==
    IF Immutable(uri)
    THEN IF Key(uri) = NilKey
         THEN [key |-> NilKey, err |-> Err("immutable address not a content hash", uri.Addr),
               calls |-> <<>>, asked |-> FALSE]
         ELSE [key |-> Key(uri), err |-> NoErr, calls |-> <<>>, asked |-> FALSE]
    ELSE IF ~dns
    THEN IF Key(uri) = NilKey
         THEN [key |-> NilKey, err |-> Err("no DNS to resolve name", uri.Addr),
               calls |-> <<>>, asked |-> FALSE]
         ELSE [key |-> Key(uri), err |-> NoErr, calls |-> <<>>, asked |-> FALSE]
    ELSE LET r == MultiResolverResolve(m, uri.Addr)
         IN  IF Key(uri) # NilKey
             THEN [key |-> Key(uri), err |-> NoErr, calls |-> r.calls, asked |-> TRUE]
             ELSE IF r.err = NoErr
             THEN [key |-> r.h, err |-> NoErr, calls |-> r.calls, asked |-> TRUE]
             ELSE [key |-> NilKey, err |-> r.err, calls |-> r.calls, asked |-> TRUE]

\* api.go:251 Api.Resolve; asked records whether self.dns.Resolve was called
ApiResolve(uri, dns, m) ==
    IF Immutable(uri)
    THEN IF Key(uri) = NilKey
         THEN [key |-> NilKey, err |-> Err("immutable address not a content hash", uri.Addr),
               calls |-> <<>>, asked |-> FALSE]
         ELSE [key |-> Key(uri), err |-> NoErr, calls |-> <<>>, asked |-> FALSE]
    ELSE IF ~dns
    THEN IF Key(uri) = NilKey
         THEN [key |-> NilKey, err |-> Err("no DNS to resolve name", uri.Addr),
               calls |-> <<>>, asked |-> FALSE]
         ELSE [key |-> Key(uri), err |-> NoErr, calls |-> <<>>, asked |-> FALSE]
    ELSE LET r == MultiResolverResolve(m, uri.Addr)
         IN  IF r.err = NoErr
             THEN [key |-> r.h, err |-> NoErr, calls |-> r.calls, asked |-> TRUE]
             ELSE IF Key(uri) = NilKey
             THEN [key |-> NilKey, err |-> r.err, calls |-> r.calls, asked |-> TRUE]
             ELSE [key |-> Key(uri), err |-> NoErr, calls |-> r.calls, asked |-> TRUE]

\* ------------------------------------------------- resolver specification
NoOp == [op |-> "none", scheme |-> "", addr |-> <<>>, key |-> NilKey, err |-> NoErr,
         calls |-> <<>>, asked |-> FALSE]

Registered(m) ==
    LET RECURSIVE Sum(_)
        Sum(S) == IF S = {} THEN 0
                  ELSE LET t == CHOOSE x \in S : TRUE IN Len(m[t]) + Sum(S \ {t})
    IN  Sum(DOMAIN m)

\* api.go:128 NewMultiResolver, api.go:222 NewApi
ResolverInit ==
    /\ resolvers = [t \in {} |-> <<>>]
    /\ dnsSet \in BOOLEAN
    /\ rop = NoOp

ResolverIdle ==
    /\ resolvers = [t \in {} |-> <<>>]
    /\ dnsSet = FALSE
    /\ rop = NoOp

ApIdle == [pc |-> "idle"]

NoLast == [op |-> "none"]
WaitIdle == [pc |-> "idle"]
LookupIdle == [pc |-> "idle"]
PssIdle == [pc |-> "idle"]
NoCalls == [put |-> 0, update |-> 0, edit |-> 0]
EmptyFcn == [x \in {} |-> x]

StoreIdle ==
    /\ store = EmptyFcn /\ pending = EmptyFcn /\ resources = EmptyFcn
    /\ handed = {} /\ last = NoLast /\ nops = NoCalls
    /\ mod = <<>> /\ waiter = WaitIdle /\ lookup = LookupIdle /\ pss = PssIdle

InitResolve == ResolverInit /\ ap = ApIdle /\ StoreIdle

\* api.go:116 MultiResolverOptionWithResolver: an option, applied by
\* NewMultiResolver (api.go:134) before the resolver is used
Register(r, tld) ==
    /\ rop.op = "none"
    /\ Registered(resolvers) < MaxBackends
    /\ resolvers' = [t \in DOMAIN resolvers \cup {tld} |->
                        IF t = tld THEN Append(Chain(resolvers, tld), r) ELSE resolvers[t]]
    /\ UNCHANGED <<dnsSet, rop, ap, svars>>

\* a call is made when the previous one has returned
DoResolve(addr) ==
    /\ rop.op = "returned"
    /\ LET r == MultiResolverResolve(resolvers, addr)
       IN  rop' = [op |-> "Resolve", scheme |-> "", addr |-> addr, key |-> r.h,
                   err |-> r.err, calls |-> r.calls, asked |-> TRUE]
    /\ UNCHANGED <<resolvers, dnsSet, ap, svars>>

DoApiResolve(uri) ==
    /\ rop.op = "returned"
    /\ LET r == ApiResolve(uri, dnsSet, resolvers)
       IN  rop' = [op |-> "ApiResolve", scheme |-> uri.Scheme, addr |-> uri.Addr,
                   key |-> r.key, err |-> r.err, calls |-> r.calls, asked |-> r.asked]
    /\ UNCHANGED <<resolvers, dnsSet, ap, svars>>

DoValidateOwner(name, address) ==
    /\ rop.op = "returned"
    /\ LET r == ValidateOwner(resolvers, name, address)
       IN  rop' = [op |-> "ValidateOwner", scheme |-> "", addr |-> name, key |-> NilKey,
                   err |-> r.err, calls |-> r.calls, asked |-> TRUE,
                   address |-> address, valid |-> r.ok]
    /\ UNCHANGED <<resolvers, dnsSet, ap, svars>>

DoHeaderByNumber(name, blockNr) ==
    /\ rop.op = "returned"
    /\ LET r == HeaderByNumber(resolvers, name, blockNr)
       IN  rop' = [op |-> "HeaderByNumber", scheme |-> "", addr |-> name, key |-> NilKey,
                   err |-> r.err, calls |-> r.calls, asked |-> TRUE,
                   blockNr |-> blockNr, header |-> r.header]
    /\ UNCHANGED <<resolvers, dnsSet, ap, svars>>

\* construction ends; from here on the caller takes each result before the next call
Return ==
    /\ rop.op # "returned"
    /\ rop' = [NoOp EXCEPT !.op = "returned"]
    /\ UNCHANGED <<resolvers, dnsSet, ap, svars>>

NextResolve ==
    \/ Return
    \/ \E r \in Backends, tld \in TLDs : Register(r, tld)
    \/ \E addr \in Names : DoResolve(addr)
    \/ \E s \in Schemes, addr \in Names : DoApiResolve([Scheme |-> s, Addr |-> addr, Path |-> <<>>])
    \/ \E name \in Names, address \in Addresses : DoValidateOwner(name, address)
    \/ \E name \in Names, blockNr \in Heights : DoHeaderByNumber(name, blockNr)

SpecResolve == InitResolve /\ [][NextResolve]_vars

\* ------------------------------------------------------------ content store
\* A key is the digest of the block it names; the digest is modelled as
\* injective, the key holding the block it was computed from.
NoKey == [k |-> <<>>]
KeyOf(block) == [k |-> block]

\* strings that stand in a manifest entry's hash field
EmptyHash == [kind |-> "empty", key |-> NoKey, name |-> ""]
HexOf(key) == [kind |-> "hex", key |-> key, name |-> ""]
NameHash(n) == [kind |-> "name", key |-> NoKey, name |-> n]

\* common.Hex2Bytes(entry.Hash) at api.go:405: a string that is not hex
\* decodes to no bytes
HashToKey(h) == IF h.kind = "hex" THEN h.key ELSE NoKey

\* content types; the two reserved ones are single tokens
ResourceContentType == <<"application/bzz-resource">>
ManifestType == <<"application/bzz-manifest+json">>
QUOTE == "\""
BSL == "\\"
CLOSE == "}]}"

ManifestEntry(path, hash, ct) == [Path |-> path, Hash |-> hash, ContentType |-> ct, Status |-> 0]

ContentBlock(bytes) == [kind |-> "content", data |-> bytes, entries |-> {}]
\* json.Marshal of a manifest: every string escaped, so the entries are kept as they are
PageBlock(entries) == [kind |-> "page", data |-> <<>>, entries |-> entries]

\* api.go:297 the manifest text of Put. fmt.Sprintf copies contentType between
\* the quotes unescaped: data is the text from the first character of the
\* content type to the end, entries the part before it (the hash is hex and
\* needs no escape).
PutManifest(key, contentType) ==
    [kind |-> "sprintf", data |-> contentType \o <<QUOTE, CLOSE>>,
     entries |-> {ManifestEntry(<<>>, HexOf(key), <<>>)}]

\* encoding/json reading a string from text t at i, the opening quote behind it
RECURSIVE ScanString(_, _, _)
ScanString(t, i, acc) ==
    IF i > Len(t) THEN [ok |-> FALSE, value |-> <<>>, next |-> i]
    ELSE IF t[i] = QUOTE THEN [ok |-> TRUE, value |-> acc, next |-> i + 1]
    ELSE IF t[i] = CLOSE THEN ScanString(t, i + 1, Append(acc, "}]}"))
    ELSE IF t[i] = BSL
    THEN IF i + 1 > Len(t) THEN [ok |-> FALSE, value |-> <<>>, next |-> i]
         ELSE IF t[i + 1] \in {QUOTE, BSL} THEN ScanString(t, i + 2, Append(acc, t[i + 1]))
         ELSE IF t[i + 1] = "t" THEN ScanString(t, i + 2, Append(acc, "TAB"))
         ELSE [ok |-> FALSE, value |-> <<>>, next |-> i]
    ELSE ScanString(t, i + 1, Append(acc, t[i]))

\* json.Unmarshal of a stored manifest: the entries, or a syntax error. After
\* the content type's closing quote only the closing brackets may follow.
ReadManifest(block) ==
    IF block.kind = "page" THEN [ok |-> TRUE, entries |-> block.entries]
    ELSE IF block.kind = "sprintf"
    THEN LET r == ScanString(block.data, 1, <<>>)
         IN  IF r.ok /\ r.next = Len(block.data) /\ block.data[r.next] = CLOSE
             THEN [ok |-> TRUE,
                   entries |-> {[e EXCEPT !.ContentType = r.value] : e \in block.entries}]
             ELSE [ok |-> FALSE, entries |-> {}]
    ELSE [ok |-> FALSE, entries |-> {}]

\* ------------------------------------------------------------ manifest trie
\* A trie in memory: the entries of one page; an entry of ManifestType has its
\* page under sub once loaded.
TrieEntry(e) == [Path |-> e.Path, Hash |-> e.Hash, ContentType |-> e.ContentType,
                 Status |-> e.Status, loaded |-> FALSE, sub |-> {}]
NoEntry == [Path |-> <<"nil">>, Hash |-> EmptyHash, ContentType |-> <<>>, Status |-> 0,
            loaded |-> FALSE, sub |-> {}]

Slot(path) == IF path = <<>> THEN "" ELSE path[1]
At(trie, slot) ==
    IF \E e \in trie : Slot(e.Path) = slot
    THEN CHOOSE e \in trie : Slot(e.Path) = slot
    ELSE NoEntry

\* readManifest: each entry of the page is added to an empty trie
RECURSIVE FromEntries(_)
FromEntries(es) ==
    IF es = {} THEN {}
    ELSE LET e == CHOOSE x \in es : TRUE
             rest == FromEntries(es \ {e})
         IN  {x \in rest : Slot(x.Path) # Slot(e.Path)} \cup {TrieEntry(e)}

\* loadManifest(dpa, key): the root page only
loadManifest(st, key) ==
    IF key \notin DOMAIN st THEN [ok |-> FALSE, trie |-> {}]
    ELSE LET r == ReadManifest(st[key])
         IN  IF r.ok THEN [ok |-> TRUE, trie |-> FromEntries(r.entries)]
             ELSE [ok |-> FALSE, trie |-> {}]

\* loadSubTrie: the page of a ManifestType entry, read on first touch
loadSubTrie(st, e) ==
    IF e.loaded THEN [ok |-> TRUE, trie |-> e.sub]
    ELSE loadManifest(st, HashToKey(e.Hash))

IsPrefix(p, q) == Len(p) <= Len(q) /\ SubSeq(q, 1, Len(p)) = p
Drop(p, n) == SubSeq(p, n + 1, Len(p))

StatusMultipleChoices == 300
StatusNotFound == 404
StatusUnprocessableEntity == 422
StatusInternalServerError == 500
StatusOK == 200

\* manifestTrie.findPrefixOf: the entry a path leads to, descending edge by
\* edge. An exact leaf; the entry of a page of several leaves whose common
\* prefix the path is a prefix of (Status 300: ambiguous); or none.
RECURSIVE findPrefixOf(_, _, _)
findPrefixOf(st, trie, path) ==
    IF path = <<>> THEN At(trie, "")
    ELSE LET entry == At(trie, path[1])
         IN  IF entry = NoEntry THEN NoEntry
             ELSE IF Len(path) <= Len(entry.Path)
             THEN IF IsPrefix(path, entry.Path)
                  THEN IF entry.ContentType = ManifestType
                       THEN LET sub == loadSubTrie(st, entry)
                            IN  IF sub.ok /\ Len(path) = Len(entry.Path) /\ At(sub.trie, "") # NoEntry
                                THEN At(sub.trie, "")
                                ELSE [entry EXCEPT !.Status = StatusMultipleChoices]
                       ELSE IF path = entry.Path THEN entry
                       ELSE NoEntry
                  ELSE NoEntry
             ELSE IF IsPrefix(entry.Path, path)
             THEN IF entry.ContentType = ManifestType
                  THEN LET sub == loadSubTrie(st, entry)
                       IN  IF ~sub.ok THEN NoEntry
                           ELSE findPrefixOf(st, sub.trie, Drop(path, Len(entry.Path)))
                  ELSE NoEntry
             ELSE NoEntry

\* manifestTrie.getEntry
getEntry(st, trie, path) == findPrefixOf(st, trie, path)

\* ------------------------------------------------------------ resources
\* The payload of a resource update. multihash.Decode reads a digest record
\* {code, length, digest}: wellFormed says whether the bytes are one.
KECCAK_256 == "keccak-256"
Payload(code, wellFormed, digest) == [code |-> code, wellFormed |-> wellFormed, digest |-> digest]
Update(multihash, data, synced) == [Multihash |-> multihash, data |-> data, synced |-> synced]

\* errors of Get: the typed error carries the key of ErrResourceReturn
NoGetErr == [type |-> "nil", key |-> EmptyHash]
GetErr(t) == [type |-> t, key |-> EmptyHash]
\* api.go:42 ErrResourceReturn
ErrResourceReturn(key) == [type |-> "ErrResourceReturn", key |-> key]

\* storage.ResourceHandler.LookupLatestByName
LookupLatestByName(res, name) ==
    IF name \in DOMAIN res THEN [rsrc |-> res[name], err |-> NoGetErr]
    ELSE [rsrc |-> Update(FALSE, Payload("", FALSE, NoKey), FALSE), err |-> GetErr("resource not found")]

\* mutant: the content of an update that has not arrived is handed out
GetContentUnsynced(res, name) ==
    IF name \in DOMAIN res THEN [data |-> res[name].data, err |-> NoGetErr]
    ELSE [data |-> Payload("", FALSE, NoKey), err |-> GetErr("resource content not available")]

\* storage.ResourceHandler.GetContent
GetContent(res, name) ==
    IF name \in DOMAIN res /\ res[name].synced THEN [data |-> res[name].data, err |-> NoGetErr]
    ELSE [data |-> Payload("", FALSE, NoKey), err |-> GetErr("resource content not available")]

\* mutant: bytes that are no digest record decode without error
MultihashDecodeLenient(data) ==
    [Code |-> data.code, Digest |-> data.digest, err |-> NoGetErr]

\* multihash.Decode
MultihashDecode(data) ==
    IF data.wellFormed THEN [Code |-> data.code, Digest |-> data.digest, err |-> NoGetErr]
    ELSE [Code |-> "", Digest |-> NoKey, err |-> GetErr("multihash decode")]

\* ------------------------------------------------------------ Get
NoReader == <<>>
Reader(key) == <<key>>
GetResult(reader, mimeType, status, contentKey, err) ==
    [reader |-> reader, mimeType |-> mimeType, status |-> status,
     contentKey |-> contentKey, err |-> err]

\* mutant: a reader is opened on the hash of an ambiguous entry as well
GetServeAlwaysReads(entry) ==
    LET contentKey == HashToKey(entry.Hash)
    IN  GetResult(Reader(contentKey), entry.ContentType, entry.Status, contentKey, NoGetErr)

\* api.go:405-414 the entry found is served: ambiguous, or a reader on its content
GetServe(entry) ==
    LET contentKey == HashToKey(entry.Hash)
    IN  IF entry.Status = StatusMultipleChoices
        THEN GetResult(NoReader, entry.ContentType, entry.Status, contentKey, NoGetErr)
        ELSE GetResult(Reader(contentKey), entry.ContentType, entry.Status, contentKey, NoGetErr)

\* mutant: the raw resource is reported as a missing resource
GetResourceRawNotFound(entry) ==
    GetResult(NoReader, <<>>, StatusNotFound, NoKey, GetErr("resource not found"))

\* mutant: the typed error carries no key and the MIME type is left empty
GetResourceRawNoKey(entry) ==
    GetResult(NoReader, <<>>, StatusOK, NoKey, ErrResourceReturn(EmptyHash))

\* api.go:400-402 the update is not a multihash: the typed error is returned
GetResourceRaw(entry) ==
    GetResult(NoReader, entry.ContentType, StatusOK, NoKey, ErrResourceReturn(entry.Hash))

\* mutant: the manifest behind the digest is loaded, but the pointer entry is served
GetResourceServesPointer(st, res, entry, path) ==
    LET look == LookupLatestByName(res, entry.Hash)
        cont == GetContent(res, entry.Hash)
    IN  IF look.err # NoGetErr
        THEN GetResult(NoReader, <<>>, StatusNotFound, NoKey, look.err)
        ELSE IF cont.err # NoGetErr
        THEN GetResult(NoReader, <<>>, StatusNotFound, NoKey, cont.err)
        ELSE IF look.rsrc.Multihash
        THEN LET dec == MultihashDecode(cont.data)
             IN  IF dec.err # NoGetErr
                 THEN GetResult(NoReader, <<>>, StatusInternalServerError, NoKey, dec.err)
                 ELSE IF dec.Code # KECCAK_256
                 \* api.go:373 returns the err of Decode, which is nil here
                 THEN GetResult(NoReader, <<>>, StatusUnprocessableEntity, NoKey, dec.err)
                 ELSE LET m == loadManifest(st, dec.Digest)
                      IN  IF ~m.ok
                          THEN GetResult(NoReader, <<>>, StatusNotFound, NoKey,
                                         GetErr("loadManifest (resource multihash)"))
                          ELSE LET e2 == getEntry(st, m.trie, path)
                               IN  IF e2 = NoEntry
                                   THEN GetResult(NoReader, <<>>, StatusNotFound, NoKey,
                                                  GetErr("manifest (resource multihash) entry not found"))
                                   ELSE GetServe(entry)
        ELSE GetResourceRaw(entry)

\* mutant: a pointer found behind the digest is dereferenced in its turn
GetResourceAgain(st, res, entry, path) ==
    LET look == LookupLatestByName(res, entry.Hash)
        cont == GetContent(res, entry.Hash)
    IN  IF look.err # NoGetErr
        THEN GetResult(NoReader, <<>>, StatusNotFound, NoKey, look.err)
        ELSE IF cont.err # NoGetErr
        THEN GetResult(NoReader, <<>>, StatusNotFound, NoKey, cont.err)
        ELSE IF look.rsrc.Multihash
        THEN LET dec == MultihashDecode(cont.data)
             IN  IF dec.err # NoGetErr
                 THEN GetResult(NoReader, <<>>, StatusInternalServerError, NoKey, dec.err)
                 ELSE IF dec.Code # KECCAK_256
                 THEN GetResult(NoReader, <<>>, StatusUnprocessableEntity, NoKey, dec.err)
                 ELSE LET m == loadManifest(st, dec.Digest)
                      IN  IF ~m.ok
                          THEN GetResult(NoReader, <<>>, StatusNotFound, NoKey,
                                         GetErr("loadManifest (resource multihash)"))
                          ELSE LET e2 == getEntry(st, m.trie, path)
                               IN  IF e2 = NoEntry
                                   THEN GetResult(NoReader, <<>>, StatusNotFound, NoKey,
                                                  GetErr("manifest (resource multihash) entry not found"))
                                   ELSE IF e2.ContentType = ResourceContentType
                                   THEN IF LookupLatestByName(res, e2.Hash).rsrc.Multihash
                                        THEN GetResult(NoReader, <<>>, StatusNotFound, NoKey,
                                                       GetErr("resource not found"))
                                        ELSE GetResourceRaw(e2)
                                   ELSE GetServe(e2)
        ELSE GetResourceRaw(entry)

\* api.go:341-403 the entry is a resource pointer
GetResource(st, res, entry, path) ==
    LET look == LookupLatestByName(res, entry.Hash)
        cont == GetContent(res, entry.Hash)
    IN  IF look.err # NoGetErr
        THEN GetResult(NoReader, <<>>, StatusNotFound, NoKey, look.err)
        ELSE IF cont.err # NoGetErr
        THEN GetResult(NoReader, <<>>, StatusNotFound, NoKey, cont.err)
        ELSE IF look.rsrc.Multihash
        THEN LET dec == MultihashDecode(cont.data)
             IN  IF dec.err # NoGetErr
                 THEN GetResult(NoReader, <<>>, StatusInternalServerError, NoKey, dec.err)
                 ELSE IF dec.Code # KECCAK_256
                 \* api.go:373 returns the err of Decode, which is nil here
                 THEN GetResult(NoReader, <<>>, StatusUnprocessableEntity, NoKey, dec.err)
                 ELSE LET m == loadManifest(st, dec.Digest)
                      IN  IF ~m.ok
                          THEN GetResult(NoReader, <<>>, StatusNotFound, NoKey,
                                         GetErr("loadManifest (resource multihash)"))
                          ELSE LET e2 == getEntry(st, m.trie, path)
                               IN  IF e2 = NoEntry
                                   THEN GetResult(NoReader, <<>>, StatusNotFound, NoKey,
                                                  GetErr("manifest (resource multihash) entry not found"))
                                   ELSE GetServe(e2)
        ELSE GetResourceRaw(entry)

\* a call made to a collaborator (the content store, the resource handler)
Call(to, arg, failed) == [to |-> to, arg |-> arg, failed |-> failed]

\* api.go:345-376 the calls Get makes for a resource pointer, in order: each is
\* made once and the first that fails ends the operation
ResourceCalls(st, res, entry) ==
    LET look == LookupLatestByName(res, entry.Hash)
        cont == GetContent(res, entry.Hash)
        dec == MultihashDecode(cont.data)
        c1 == <<Call("LookupLatestByName", entry.Hash, look.err # NoGetErr)>>
        c2 == Append(c1, Call("GetContent", entry.Hash, cont.err # NoGetErr))
    IN  IF look.err # NoGetErr THEN c1
        ELSE IF cont.err # NoGetErr THEN c2
        ELSE IF look.rsrc.Multihash /\ dec.err = NoGetErr /\ dec.Code = KECCAK_256
        THEN Append(c2, Call("loadManifest", dec.Digest, ~loadManifest(st, dec.Digest).ok))
        ELSE c2

\* api.go:316-376 the calls Get makes
GetCalls(st, res, manifestKey, path) ==
    LET m == loadManifest(st, manifestKey)
        entry == getEntry(st, m.trie, path)
        c0 == <<Call("loadManifest", manifestKey, ~m.ok)>>
    IN  IF ~m.ok \/ entry = NoEntry \/ entry.ContentType # ResourceContentType THEN c0
        ELSE c0 \o ResourceCalls(st, res, entry)

\* mutant: a missing entry is reported by the status only, with a nil error
ApiGetMissingNoError(st, res, manifestKey, path) ==
    LET m == loadManifest(st, manifestKey)
    IN  IF ~m.ok THEN GetResult(NoReader, <<>>, StatusNotFound, NoKey, GetErr("loadManifest"))
        ELSE LET entry == getEntry(st, m.trie, path)
             IN  IF entry = NoEntry
                 THEN GetResult(NoReader, <<>>, StatusNotFound, NoKey, NoGetErr)
                 ELSE IF entry.ContentType = ResourceContentType
                 THEN GetResource(st, res, entry, path)
                 ELSE GetServe(entry)

\* api.go:313 Api.Get
ApiGet(st, res, manifestKey, path) ==
    LET m == loadManifest(st, manifestKey)
    IN  IF ~m.ok THEN GetResult(NoReader, <<>>, StatusNotFound, NoKey, GetErr("loadManifest"))
        ELSE LET entry == getEntry(st, m.trie, path)
             IN  IF entry = NoEntry
                 THEN GetResult(NoReader, <<>>, StatusNotFound, NoKey, GetErr("manifest entry not found"))
                 ELSE IF entry.ContentType = ResourceContentType
                 THEN GetResource(st, res, entry, path)
                 ELSE GetServe(entry)

\* what a reader yields: the bytes of the content block at its key, if stored
ReadAll(st, reader) ==
    IF reader # NoReader /\ reader[1] \in DOMAIN st /\ st[reader[1]].kind = "content"
    THEN [ok |-> TRUE, bytes |-> st[reader[1]].data]
    ELSE [ok |-> FALSE, bytes |-> <<>>]

\* ------------------------------------------------------------ Put
\* dpa.Store: the key is returned at once, the block is durable once the
\* write completes; a block already stored has nothing left to complete
Issue(st, pend, block) ==
    IF KeyOf(block) \in DOMAIN st THEN pend
    ELSE [k \in DOMAIN pend \cup {KeyOf(block)} |-> IF k = KeyOf(block) THEN block ELSE pend[k]]

Stored(st, key, block) == [k \in DOMAIN st \cup {key} |-> IF k = key THEN block ELSE st[k]]

PutContents == {<<"p">>, <<"p", "q">>}
ContentTypes == (SeqsUpTo({"t", QUOTE, BSL}, MaxCtLen) \ {<<>>}) \cup {ResourceContentType}

\* api.go:292, 299 the dpa.Store calls Put makes: the content, then the
\* manifest unless the first call failed
PutCalls(content, contentType, failAt) ==
    LET c1 == <<Call("Store", ContentBlock(content), failAt = 1)>>
    IN  IF failAt = 1 THEN c1
        ELSE Append(c1, Call("Store", PutManifest(KeyOf(ContentBlock(content)), contentType),
                             failAt = 2))

PutOk(root, waits, content, contentType) ==
    [op |-> "Put", root |-> root, waits |-> waits, content |-> content,
     contentType |-> contentType, err |-> "", wrote |-> {},
     calls |-> PutCalls(content, contentType, 0)]
PutFailed(e, calls) ==
    [op |-> "Put", root |-> NoKey, waits |-> {}, content |-> <<>>, contentType |-> <<>>, err |-> e,
     wrote |-> {}, calls |-> calls]

\* mutant: the manifest is written although the content write failed, and its
\* key is handed to the caller with the error
PutGoesOn(content, contentType, failAt) ==
    LET key == KeyOf(ContentBlock(content))
        manifest == PutManifest(key, contentType)
        pend1 == Issue(store, pending, ContentBlock(content))
    IN  /\ last.op = "none"
        /\ nops.put < MaxPuts
        /\ nops' = [nops EXCEPT !.put = @ + 1]
        /\ IF failAt = 1
           THEN /\ last' = [PutFailed("store error 1", PutCalls(content, contentType, 1))
                               EXCEPT !.root = KeyOf(manifest)]
                /\ pending' = Issue(store, pending, manifest)
                /\ handed' = handed \cup {last'}
           ELSE IF failAt = 2
           THEN /\ last' = PutFailed("store error 2", PutCalls(content, contentType, 2))
                /\ pending' = pend1
                /\ UNCHANGED handed
           ELSE /\ last' = PutOk(KeyOf(manifest), {key, KeyOf(manifest)}, content, contentType)
                /\ pending' = Issue(store, pend1, manifest)
                /\ handed' = handed \cup {last'}
        /\ UNCHANGED <<store, resources, mod, rvars, ap, waiter, lookup, pss>>

\* api.go:289 Api.Put; failAt names the dpa.Store call that fails, 0 for none
Put(content, contentType, failAt) ==
    LET key == KeyOf(ContentBlock(content))
        manifest == PutManifest(key, contentType)
        pend1 == Issue(store, pending, ContentBlock(content))
    IN  /\ last.op = "none"
        /\ nops.put < MaxPuts
        /\ nops' = [nops EXCEPT !.put = @ + 1]
        /\ IF failAt = 1
           THEN /\ last' = PutFailed("store error 1", PutCalls(content, contentType, 1))
                /\ UNCHANGED <<pending, handed>>
           ELSE IF failAt = 2
           THEN /\ last' = PutFailed("store error 2", PutCalls(content, contentType, 2))
                /\ pending' = pend1
                /\ UNCHANGED handed
           ELSE /\ last' = PutOk(KeyOf(manifest), {key, KeyOf(manifest)}, content, contentType)
                /\ pending' = Issue(store, pend1, manifest)
                /\ handed' = handed \cup {last'}
        /\ UNCHANGED <<store, resources, mod, rvars, ap, waiter, lookup, pss>>

\* a write completes: the block is durable
StoreComplete(k) ==
    /\ last.op = "none"
    /\ k \in DOMAIN pending
    /\ store' = Stored(store, k, pending[k])
    /\ pending' = [j \in DOMAIN pending \ {k} |-> pending[j]]
    /\ UNCHANGED <<resources, handed, last, nops, mod, rvars, ap, waiter, lookup, pss>>

\* mutant: the function returned waits for the manifest write only
PutWaitManifestOnly(waitContent, waitManifest) == <<waitManifest>>

\* api.go:304-307 the function Put returns: waitContent(), then waitManifest()
PutWait(waitContent, waitManifest) == <<waitContent, waitManifest>>

\* the caller calls the function Put returned with root h.root; found keeps
\* which of the two writes were durable by then
WaitCall(h) ==
    LET key == KeyOf(ContentBlock(h.content))
    IN  /\ waiter.pc = "idle"
        /\ h.op = "Put" /\ h.err = ""
        /\ waiter' = [pc |-> "waiting", root |-> h.root, content |-> key,
                      left |-> PutWait(key, h.root),
                      found |-> {key, h.root} \cap DOMAIN store]
        /\ UNCHANGED <<store, pending, resources, handed, last, nops, mod, rvars, ap, lookup, pss>>

\* the signal the function blocks on is satisfied; after the last one it returns
WaitStep ==
    /\ waiter.pc = "waiting"
    /\ Head(waiter.left) \in DOMAIN store
    /\ waiter' = [waiter EXCEPT !.left = Tail(@),
                                !.pc = IF Tail(waiter.left) = <<>> THEN "done" ELSE "waiting"]
    /\ UNCHANGED <<store, pending, resources, handed, last, nops, mod, rvars, ap, lookup, pss>>

\* the completion signal Put returns: waitContent(), then waitManifest()
WaitSatisfied(h) == h.waits \subseteq DOMAIN store

GetPaths == {<<>>, <<"a">>, <<"a", "a">>}

Get(manifestKey, path) ==
    /\ last.op = "none"
    /\ last' = [op |-> "Get", key |-> manifestKey, path |-> path,
                res |-> ApiGet(store, resources, manifestKey, path),
                calls |-> GetCalls(store, resources, manifestKey, path)]
    /\ UNCHANGED <<store, pending, resources, handed, nops, mod, rvars, ap, waiter, lookup, pss>>

\* the caller takes the results of the call
Returned ==
    /\ last.op # "none"
    /\ last' = NoLast
    /\ UNCHANGED <<store, pending, resources, handed, nops, mod, rvars, ap, waiter, lookup, pss>>

InitPut == ResolverIdle /\ ap = ApIdle /\ StoreIdle

NextPut ==
    \/ \E c \in PutContents, ct \in ContentTypes, f \in 0..2 : Put(c, ct, f)
    \/ \E k \in DOMAIN pending : StoreComplete(k)
    \/ \E h \in handed, path \in GetPaths : Get(h.root, path)
    \/ Returned
    \/ \E h \in handed : WaitCall(h)
    \/ WaitStep

SpecPut == InitPut /\ [][NextPut]_vars

\* ------------------------------------------------------------ resource pointers
ResourceNames == {"r1"}
DigestCodes == {KECCAK_256, "sha2-256"}

\* the store after put("p", "t") has completed
FixtureContent == ContentBlock(<<"p">>)
FixtureManifest == PutManifest(KeyOf(FixtureContent), <<"t">>)
FixtureStore ==
    Stored(Stored(EmptyFcn, KeyOf(FixtureContent), FixtureContent),
           KeyOf(FixtureManifest), FixtureManifest)
FixturePut ==
    PutOk(KeyOf(FixtureManifest), {KeyOf(FixtureContent), KeyOf(FixtureManifest)}, <<"p">>, <<"t">>)

\* the store after the files "aa" and "ab" were added to an empty manifest: a
\* root page whose one entry, of manifest type, leads to the page of the two
FixtureSubPage ==
    PageBlock({ManifestEntry(<<"a">>, HexOf(KeyOf(ContentBlock(<<"p">>))), <<"t">>),
               ManifestEntry(<<"b">>, HexOf(KeyOf(ContentBlock(<<"q">>))), <<"t">>)})
FixtureTreeRoot ==
    PageBlock({ManifestEntry(<<"a">>, HexOf(KeyOf(FixtureSubPage)), ManifestType)})
FixtureTree ==
    [op |-> "Modify", root |-> KeyOf(FixtureTreeRoot), waits |-> {}, content |-> <<>>,
     contentType |-> <<>>, err |-> "",
     wrote |-> {KeyOf(FixtureTreeRoot), KeyOf(FixtureSubPage)}]
FixtureTreeStore ==
    Stored(Stored(Stored(FixtureStore, KeyOf(ContentBlock(<<"q">>)), ContentBlock(<<"q">>)),
                  KeyOf(FixtureSubPage), FixtureSubPage),
           KeyOf(FixtureTreeRoot), FixtureTreeRoot)

\* the store after modify(empty manifest, "aa", r1, resource type): a manifest
\* whose entry at the path "aa" is a pointer to the resource r1
FixturePointerPage ==
    PageBlock({ManifestEntry(<<"a", "a">>, NameHash("r1"), ResourceContentType)})
FixturePointer ==
    [op |-> "Modify", root |-> KeyOf(FixturePointerPage), waits |-> {}, content |-> <<>>,
     contentType |-> <<>>, err |-> "", wrote |-> {KeyOf(FixturePointerPage)}]

\* the pathless manifest of a resource: its entry's hash field holds the name
ResourceManifest(name) ==
    PageBlock({ManifestEntry(<<>>, NameHash(name), ResourceContentType)})

\* Api.NewResourceManifest
NewResourceManifest(name) ==
    LET m == ResourceManifest(name)
    IN  /\ last.op = "none"
        /\ \A h \in handed : h.root # KeyOf(m)
        /\ pending' = Issue(store, pending, m)
        /\ last' = [op |-> "NewResourceManifest", root |-> KeyOf(m), waits |-> {KeyOf(m)},
                    content |-> <<>>, contentType |-> <<>>, err |-> "", wrote |-> {}]
        /\ handed' = handed \cup {last'}
        /\ UNCHANGED <<store, resources, nops, mod, rvars, ap, waiter, lookup, pss>>

\* api.go:685 Api.resourceUpdate
ResourceUpdate(name, data, multihash, synced) ==
    /\ last.op = "none"
    /\ nops.update < MaxUpdates
    /\ nops' = [nops EXCEPT !.update = @ + 1]
    /\ resources' = [n \in DOMAIN resources \cup {NameHash(name)} |->
                        IF n = NameHash(name) THEN Update(multihash, data, synced)
                        ELSE resources[n]]
    /\ last' = [op |-> "ResourceUpdate"]
    /\ UNCHANGED <<store, pending, handed, mod, rvars, ap, waiter, lookup, pss>>

InitResource ==
    /\ ResolverIdle /\ ap = ApIdle
    /\ store = Stored(FixtureTreeStore, KeyOf(FixturePointerPage), FixturePointerPage)
    /\ pending = EmptyFcn /\ resources = EmptyFcn
    /\ handed = {FixturePut, FixtureTree, FixturePointer} /\ last = NoLast /\ nops = NoCalls
    /\ mod = <<>> /\ waiter = WaitIdle /\ lookup = LookupIdle /\ pss = PssIdle

NextResource ==
    \/ \E name \in ResourceNames : NewResourceManifest(name)
    \/ \E name \in ResourceNames, code \in DigestCodes, wf \in BOOLEAN,
          digest \in {h.root : h \in handed} \cup {KeyOf(FixtureContent)},
          mh \in BOOLEAN, synced \in BOOLEAN :
            ResourceUpdate(name, Payload(code, wf, digest), mh, synced)
    \/ \E k \in DOMAIN pending : StoreComplete(k)
    \/ \E h \in handed, path \in GetPaths : Get(h.root, path)
    \/ Returned

SpecResource == InitResource /\ [][NextResource]_vars

\* ------------------------------------------------------------ trie edits
Remove(trie, slot) == {x \in trie : Slot(x.Path) # slot}

\* mutant: the entry is added beside the one already in its slot
ReplaceAppends(trie, slot, e) == trie \cup {e}

\* mt.entries[b] = entry: the slot of the first byte holds one entry
Replace(trie, slot, e) == {x \in trie : Slot(x.Path) # slot} \cup {e}

RECURSIVE CommonPrefixLen(_, _)
CommonPrefixLen(p, q) ==
    IF p = <<>> \/ q = <<>> THEN 0
    ELSE IF Head(p) # Head(q) THEN 0
    ELSE 1 + CommonPrefixLen(Tail(p), Tail(q))

SubTrieEntry(path, sub) ==
    [Path |-> path, Hash |-> EmptyHash, ContentType |-> ManifestType, Status |-> 0,
     loaded |-> TRUE, sub |-> sub]

\* manifestTrie.addEntry: the entry replaces the leaf of its path; two paths
\* that share a prefix move under a page of that prefix. The pages touched
\* lose their hash (dirty) up to the root.
RECURSIVE addEntry(_, _, _)
addEntry(st, trie, entry) ==
    IF entry.Path = <<>> THEN Replace(trie, "", entry)
    ELSE LET b == entry.Path[1]
             old == At(trie, b)
             cpl == CommonPrefixLen(entry.Path, old.Path)
         IN  IF old = NoEntry \/ (old.Path = entry.Path /\ old.ContentType # ManifestType)
             THEN Replace(trie, b, entry)
             ELSE IF old.ContentType = ManifestType /\ cpl = Len(old.Path)
             THEN LET sub == loadSubTrie(st, old)
                  IN  IF ~sub.ok THEN trie
                      ELSE Replace(trie, b,
                               [old EXCEPT !.Hash = EmptyHash, !.loaded = TRUE,
                                           !.sub = addEntry(st, sub.trie,
                                                       [entry EXCEPT !.Path = Drop(@, cpl)])])
             ELSE Replace(trie, b,
                      SubTrieEntry(SubSeq(entry.Path, 1, cpl),
                          addEntry(st, addEntry(st, {}, [entry EXCEPT !.Path = Drop(@, cpl)]),
                                   [old EXCEPT !.Path = Drop(@, cpl)])))

\* manifestTrie.deleteEntry: the leaf of the path is removed; a page left with
\* fewer than two entries is folded into its parent
RECURSIVE deleteEntry(_, _, _)
deleteEntry(st, trie, path) ==
    IF path = <<>> THEN Remove(trie, "")
    ELSE LET b == path[1]
             entry == At(trie, b)
         IN  IF entry = NoEntry THEN trie
             ELSE IF entry.Path = path /\ entry.ContentType # ManifestType THEN Remove(trie, b)
             ELSE IF entry.ContentType = ManifestType /\ IsPrefix(entry.Path, path)
             THEN LET sub == loadSubTrie(st, entry)
                      sub2 == deleteEntry(st, sub.trie, Drop(path, Len(entry.Path)))
                  IN  IF ~sub.ok THEN trie
                      ELSE IF sub2 = {} THEN Remove(trie, b)
                      ELSE IF Cardinality(sub2) = 1
                      THEN LET only == CHOOSE x \in sub2 : TRUE
                           IN  Replace(trie, b, [only EXCEPT !.Path = entry.Path \o @])
                      ELSE Replace(trie, b, [entry EXCEPT !.Hash = EmptyHash, !.loaded = TRUE,
                                                          !.sub = sub2])
             ELSE trie

\* manifestTrie.recalcAndStore: bottom-up, the page of every dirty entry is
\* written and its key becomes the entry's hash; PageOf is the page written for
\* a trie, WritesOf all the pages written for it
RECURSIVE PageOf(_), WritesOf(_)
PageOf(trie) ==
    {ManifestEntry(e.Path,
                   IF e.Hash = EmptyHash /\ e.loaded
                   THEN HexOf(KeyOf(PageBlock(PageOf(e.sub)))) ELSE e.Hash,
                   e.ContentType) : e \in trie}
WritesOf(trie) ==
    {PageBlock(PageOf(trie))}
    \cup UNION {WritesOf(e.sub) : e \in {x \in trie : x.Hash = EmptyHash /\ x.loaded}}

\* every write of recalcAndStore is waited for: the blocks are durable on return
RECURSIVE StoreAll(_, _)
StoreAll(st, blocks) ==
    IF blocks = {} THEN st
    ELSE LET b == CHOOSE x \in blocks : TRUE
         IN  StoreAll(Stored(st, KeyOf(b), b), blocks \ {b})

\* the leaves under a key, with their full paths: path -> <<hash, content type>>
RECURSIVE LeavesOfTrie(_, _, _)
LeavesOfTrie(st, trie, prefix) ==
    UNION {IF e.ContentType = ManifestType
           THEN LET sub == loadSubTrie(st, e)
                IN  IF sub.ok THEN LeavesOfTrie(st, sub.trie, prefix \o e.Path) ELSE {}
           ELSE {<<prefix \o e.Path, e.Hash, e.ContentType>>} : e \in trie}
Leaves(st, key) ==
    LET m == loadManifest(st, key)
    IN  IF m.ok THEN LeavesOfTrie(st, m.trie, <<>>) ELSE {}

\* the result of an edit: the new root, the pages recalcAndStore wrote for it
\* and the file content stored with it
EditOk(op, root, trie, content) ==
    [op |-> op, root |-> root, waits |-> {}, content |-> content, contentType |-> <<>>,
     err |-> "", wrote |-> {KeyOf(b) : b \in WritesOf(trie)}]
EditFailed(op, e) ==
    [op |-> op, root |-> NoKey, waits |-> {}, content |-> <<>>, contentType |-> <<>>,
     err |-> e, wrote |-> {}]

\* ------------------------------------------------------------ Modify
Procs == {1, 2}
ModPaths == SeqsUpTo({"a"}, MaxPathLen)
            \cup {Append(p, "b") : p \in SeqsUpTo({"a"}, MaxPathLen - 1)}
ModHashes == {EmptyHash, HexOf(KeyOf(ContentBlock(<<"q">>)))}

ModIdle == [pc |-> "idle"]

\* api.go:427 loadManifest of the starting root; snap keeps the store as the call found it
ModifyLoad(p, key, path, contentHash, contentType) ==
    LET m == loadManifest(store, key)
    IN  /\ mod[p].pc = "idle"
        /\ nops.edit + nops.put < MaxEdits
        /\ nops' = [nops EXCEPT !.edit = @ + 1]
        /\ mod' = [mod EXCEPT ![p] =
                     [pc |-> IF m.ok THEN "loaded" ELSE "done", key |-> key, path |-> path,
                      contentHash |-> contentHash, contentType |-> contentType,
                      trie |-> m.trie, snap |-> store, ok |-> m.ok, ref |-> NoKey,
                      calls |-> <<Call("loadManifest", key, ~m.ok)>>]]
        /\ UNCHANGED <<store, pending, resources, handed, last, rvars, ap, waiter, lookup, pss>>

\* mutant: the callers share one trie in memory, the one edited last
ModifyEditedShared(st, trie, path, contentHash, contentType) ==
    LET others == {q \in Procs : mod[q].pc \in {"edited", "done"} /\ mod[q].ok}
        base == IF others # {} THEN mod[CHOOSE q \in others : TRUE].trie ELSE trie
    IN  IF contentHash # EmptyHash
        THEN addEntry(st, base, TrieEntry(ManifestEntry(path, contentHash, contentType)))
        ELSE deleteEntry(st, base, path)

\* mutant: an empty content hash leaves the trie as it is
ModifyEditedNoDelete(st, trie, path, contentHash, contentType) ==
    IF contentHash # EmptyHash
    THEN addEntry(st, trie, TrieEntry(ManifestEntry(path, contentHash, contentType)))
    ELSE trie

\* api.go:432-441 the edit of the trie in memory
ModifyEdited(st, trie, path, contentHash, contentType) ==
    IF contentHash # EmptyHash
    THEN addEntry(st, trie, TrieEntry(ManifestEntry(path, contentHash, contentType)))
    ELSE deleteEntry(st, trie, path)

ModifyEdit(p) ==
    /\ mod[p].pc = "loaded"
    /\ mod' = [mod EXCEPT ![p].pc = "edited",
                          ![p].trie = ModifyEdited(store, mod[p].trie, mod[p].path,
                                                   mod[p].contentHash, mod[p].contentType)]
    /\ UNCHANGED <<store, pending, resources, handed, last, nops, rvars, ap, waiter, lookup, pss>>

\* mutant: the new root page is written over the block of the starting root
ModifyStoredInPlace(st, key, trie) ==
    Stored(StoreAll(st, WritesOf(trie)), key, PageBlock(PageOf(trie)))

\* mutant: recalcAndStore returns before its writes are durable
ModifyStoredNoWait(st, key, trie) == st

\* api.go:443 recalcAndStore: the store after it
ModifyStored(st, key, trie) == StoreAll(st, WritesOf(trie))

\* mutant: the root key also depends on how many calls finished before this one
ModifyRefStamped(trie) ==
    KeyOf([PageBlock(PageOf(trie)) EXCEPT
              !.data = IF \E q \in Procs : mod[q].pc = "done" THEN <<"1">> ELSE <<"0">>])

\* api.go:447 trie.ref
ModifyRef(trie) == KeyOf(PageBlock(PageOf(trie)))

ModifyStore(p) ==
    /\ mod[p].pc = "edited"
    /\ store' = ModifyStored(store, mod[p].key, mod[p].trie)
    /\ mod' = [mod EXCEPT ![p].pc = "done", ![p].ref = ModifyRef(mod[p].trie)]
    /\ handed' = handed \cup {EditOk("Modify", ModifyRef(mod[p].trie), mod[p].trie, <<>>)}
    /\ UNCHANGED <<pending, resources, last, nops, rvars, ap, waiter, lookup, pss>>

\* Api.Modify run alone on store st: the root it returns
ModifyAlone(st, key, path, contentHash, contentType) ==
    ModifyRef(ModifyEdited(st, loadManifest(st, key).trie, path, contentHash, contentType))

\* ------------------------------------------------------------ AppendFile
FileBytes == {"p", "q"}
Zeros(n) == [i \in 1..n |-> "0"]
Min(a, b) == IF a < b THEN a ELSE b

\* copy src[from+1 ..] over buf[at+1 .. at+n]
Overwrite(buf, at, src, from, n) ==
    [i \in 1..Len(buf) |-> IF i > at /\ i <= at + n THEN src[from + i - at] ELSE buf[i]]

\* io.ReadAtLeast(r, buf, min) on a reader with avail bytes left: the totals it
\* can return. No Read is made when min <= 0; Read may return any count from
\* 1 up to the room and the bytes left, so the total is at least min when the
\* reader holds that many, and all that is left otherwise.
ReadAtLeastTotals(room, avail, min) ==
    IF room < min THEN {0}
    ELSE IF min <= 0 THEN {0}
    ELSE IF avail < min THEN {avail}
    ELSE min..Min(room, avail)

\* bytes.Reader.Read copies all that fits, so the first Read decides the total
BytesReaderTotal(room, avail, min) ==
    IF room < min \/ min <= 0 THEN 0 ELSE Min(room, avail)

BuffSize(existingSize, offset, addSize) ==
    IF offset + addSize < existingSize THEN existingSize ELSE offset + addSize

\* api.go:544-559 the buffer AppendFile stores; n1 is the count the first
\* ReadAtLeast got from the old content's reader
AppendBuffer(old, existingSize, content, offset, addSize, n1) ==
    LET size0 == offset + addSize
        buffSize == IF size0 < existingSize THEN existingSize ELSE size0
        buf0 == Zeros(buffSize)
        buf1 == Overwrite(buf0, 0, old, 0, n1)
        n2 == BytesReaderTotal(buffSize - offset, Len(content), addSize)
        buf2 == Overwrite(buf1, offset, content, 0, n2)
    IN  IF buffSize < existingSize
        THEN LET n3 == CHOOSE n \in ReadAtLeastTotals(buffSize - addSize, Len(old) - n1, buffSize) : TRUE
             IN  Overwrite(buf2, addSize, old, n1, n3)
        ELSE buf2

\* the arguments of one call, the old content being what oldKey holds
AppendInit ==
    \E old \in SeqsUpTo(FileBytes, MaxLen), content \in SeqsUpTo({"n", "m"}, MaxLen),
       existingSize \in 0..MaxLen, offset \in 0..MaxLen, addSize \in 0..MaxLen :
        ap = [pc |-> "called", old |-> old, existingSize |-> existingSize, content |-> content,
              offset |-> offset, addSize |-> addSize, buf |-> <<>>]

\* api.go:541 Api.AppendFile, up to the combined reader of line 561
AppendFileBuffer(n1) ==
    /\ ap.pc = "called"
    /\ n1 \in ReadAtLeastTotals(BuffSize(ap.existingSize, ap.offset, ap.addSize), Len(ap.old), ap.offset)
    /\ ap' = [ap EXCEPT !.pc = "buffered",
                        !.buf = AppendBuffer(ap.old, ap.existingSize, ap.content,
                                             ap.offset, ap.addSize, n1)]
    /\ UNCHANGED <<rvars, svars>>

InitAppend == ResolverIdle /\ AppendInit /\ StoreIdle

NextAppend == \E n1 \in 0..(2 * MaxLen) : AppendFileBuffer(n1)

SpecAppend == InitAppend /\ [][NextAppend]_vars

\* ------------------------------------------------------------ file edits
DirPaths == {<<>>, <<"/">>, <<"/", "a">>}
FileNames == {<<"b">>}
FileContents == {<<"p">>, <<"q">>}

\* filepath.Join of a directory and a file name: empty elements are dropped
Join(path, fname) ==
    IF path = <<>> THEN fname
    ELSE IF fname = <<>> THEN path
    ELSE path \o <<"/">> \o fname

\* mime.TypeByExtension(filepath.Ext(fname)): none for a name without extension
MimeType(fname) == IF Ext(fname) = <<>> THEN <<>> ELSE <<"t">>

\* api.go:465 the root directory is trimmed
TrimRoot(path) == IF path[1] = "/" THEN Tail(path) ELSE path

\* ManifestWriter.AddEntry stores the content with dpa.Store and hands no
\* completion signal to its caller: the write is durable on return or still
\* pending, as waited says
ContentStore(st, block, waited) == IF waited THEN Stored(st, KeyOf(block), block) ELSE st
ContentPending(st, pend, block, waited) ==
    IF waited THEN [k \in DOMAIN pend \ {KeyOf(block)} |-> pend[k]]
    ELSE Issue(st, pend, block)

\* the state after an edit of a manifest writer: the content write, then Store
FileEdit(op, trie, content, hasContent, waited) ==
    LET block == ContentBlock(content)
        st1 == IF hasContent THEN ContentStore(store, block, waited) ELSE store
    IN  /\ store' = StoreAll(st1, WritesOf(trie))
        /\ pending' = IF hasContent THEN ContentPending(store', pending, block, waited)
                      ELSE pending
        /\ last' = EditOk(op, ModifyRef(trie), trie, content)
        /\ handed' = handed \cup {last'}

FileFailed(op, e) ==
    /\ last' = EditFailed(op, e)
    /\ UNCHANGED <<store, pending, handed>>

\* api.go:450 Api.AddFile; mhash is the hex of mkey, which Resolve gives back
AddFile(mkey, path, fname, content, waited) ==
    LET m == loadManifest(store, mkey)
        entry == TrieEntry(ManifestEntry(Join(TrimRoot(path), fname),
                                         HexOf(KeyOf(ContentBlock(content))), MimeType(fname)))
    IN  /\ last.op = "none"
        /\ nops.edit + nops.put < MaxEdits
        /\ nops' = [nops EXCEPT !.edit = @ + 1]
        /\ IF path = <<>> THEN FileFailed("AddFile", "panic: slice bounds out of range")
           ELSE IF ~m.ok THEN FileFailed("AddFile", "manifest not found")
           ELSE FileEdit("AddFile", addEntry(store, m.trie, entry), content, TRUE, waited)
        /\ UNCHANGED <<resources, mod, rvars, ap, waiter, lookup, pss>>

\* api.go:500 Api.RemoveFile
RemoveFile(mkey, path, fname) ==
    LET m == loadManifest(store, mkey)
    IN  /\ last.op = "none"
        /\ nops.edit + nops.put < MaxEdits
        /\ nops' = [nops EXCEPT !.edit = @ + 1]
        /\ IF path = <<>> THEN FileFailed("RemoveFile", "panic: slice bounds out of range")
           ELSE IF ~m.ok THEN FileFailed("RemoveFile", "manifest not found")
           ELSE FileEdit("RemoveFile", deleteEntry(store, m.trie, Join(TrimRoot(path), fname)),
                         <<>>, FALSE, FALSE)
        /\ UNCHANGED <<resources, mod, rvars, ap, waiter, lookup, pss>>

\* api.go:541 Api.AppendFile: the combined buffer replaces the entry of the file
AppendFile(mkey, path, fname, existingSize, content, oldKey, offset, addSize, n1, waited) ==
    LET old == IF oldKey \in DOMAIN store THEN store[oldKey].data ELSE <<>>
        buf == AppendBuffer(old, existingSize, content, offset, addSize, n1)
        m == loadManifest(store, mkey)
        name == Join(TrimRoot(path), fname)
        entry == TrieEntry(ManifestEntry(name, HexOf(KeyOf(ContentBlock(buf))), MimeType(fname)))
    IN  /\ last.op = "none"
        /\ nops.edit + nops.put < MaxEdits
        /\ n1 \in ReadAtLeastTotals(BuffSize(existingSize, offset, addSize), Len(old), offset)
        /\ nops' = [nops EXCEPT !.edit = @ + 1]
        /\ IF path = <<>> THEN FileFailed("AppendFile", "panic: slice bounds out of range")
           ELSE IF ~m.ok THEN FileFailed("AppendFile", "manifest not found")
           ELSE FileEdit("AppendFile",
                         addEntry(store, deleteEntry(store, m.trie, name), entry),
                         buf, TRUE, waited)
        /\ UNCHANGED <<resources, mod, rvars, ap, waiter, lookup, pss>>

\* the store the edits start from: two uploaded contents and the manifest of
\* the paths "a" and "aa", a root page over one sub-page, all durable
FixtureTrie ==
    addEntry(EmptyFcn,
             addEntry(EmptyFcn, {},
                      TrieEntry(ManifestEntry(<<"a">>, HexOf(KeyOf(ContentBlock(<<"p">>))), <<"t">>))),
             TrieEntry(ManifestEntry(<<"a", "a">>, HexOf(KeyOf(ContentBlock(<<"q">>))), <<"t">>)))
TrieStore ==
    StoreAll(EmptyFcn, WritesOf(FixtureTrie) \cup {ContentBlock(c) : c \in FileContents})

InitTrie ==
    /\ ResolverIdle /\ ap = ApIdle
    /\ store = TrieStore
    /\ pending = EmptyFcn /\ resources = EmptyFcn
    /\ handed = {EditOk("Modify", ModifyRef(FixtureTrie), FixtureTrie, <<>>)}
    /\ last = NoLast /\ nops = NoCalls
    /\ mod = [p \in Procs |-> ModIdle] /\ waiter = WaitIdle /\ lookup = LookupIdle /\ pss = PssIdle

NextTrie ==
    \/ \E p \in Procs, h \in handed, path \in ModPaths, ch \in ModHashes :
          ModifyLoad(p, h.root, path, ch, <<"t">>)
    \/ \E p \in Procs : ModifyEdit(p)
    \/ \E p \in Procs : ModifyStore(p)
    \/ \E h \in handed, d \in DirPaths, f \in FileNames, w \in BOOLEAN :
          AddFile(h.root, d, f, <<"q", "q">>, w)
    \/ \E h \in handed, d \in DirPaths, f \in FileNames : RemoveFile(h.root, d, f)
    \/ \E h \in handed, d \in DirPaths, f \in FileNames, offset \in 0..1, n1 \in 0..1,
          w \in BOOLEAN :
          AppendFile(h.root, d, f, 1, <<"q">>, KeyOf(ContentBlock(<<"p">>)), offset, 1, n1, w)
    \/ nops.edit + nops.put < MaxEdits /\ Put(<<"p", "q">>, <<"t">>, 0)
    \/ \E k \in DOMAIN pending : StoreComplete(k)
    \/ Returned

SpecTrie == InitTrie /\ [][NextTrie]_vars

\* ---------------------------------------------------------------- claims
TldOf(name) == IF Ext(name) # <<>> THEN Tail(Ext(name)) ELSE <<>>
HasTld(name) == Ext(name) # <<>>
BackendAt(c) == resolvers[c[1]][c[2]]
AllFail(chain) == \A i \in 1..Len(chain) : BackendResolve(chain[i], <<>>).err # NoErr

\* C1: when a chain is registered for the exact TLD of the name, Resolve calls
\* only backends of that chain, and when all of them fail it returns the error
\* of the last backend of that chain; no backend of the default chain is called.
C1_TldChainOnly ==
    (rop.op = "Resolve" /\ HasTld(rop.addr) /\ TldOf(rop.addr) \in DOMAIN resolvers)
    => LET tld == TldOf(rop.addr)
           chain == resolvers[tld]
       IN  /\ \A i \in 1..Len(rop.calls) : rop.calls[i][1] = tld
           /\ AllFail(chain) =>
                /\ rop.err = BackendResolve(chain[Len(chain)], rop.addr).err
                /\ rop.calls = [i \in 1..Len(chain) |-> <<tld, i>>]

\* a TLD chain whose backends all failed while the default chain would succeed
C1_Witness ==
    /\ rop.op = "Resolve" /\ HasTld(rop.addr)
    /\ TldOf(rop.addr) = <<"a">> /\ <<"a">> \in DOMAIN resolvers
    /\ AllFail(resolvers[<<"a">>])
    /\ <<>> \in DOMAIN resolvers /\ ~AllFail(resolvers[<<>>])
    /\ rop.err = Err("backend", <<resolvers[<<"a">>][Len(resolvers[<<"a">>])]>>)

\* C2: for an immutable URI, Api.Resolve never calls the resolver chain; it
\* returns the address as a content hash, or fails when the address is not a
\* well-formed hex digest of the fixed length.
C2_ImmutableNeverResolved ==
    (rop.op = "ApiResolve" /\ rop.scheme = "bzz-immutable")
    => /\ ~rop.asked /\ rop.calls = <<>>
       /\ IF isHexHash(rop.addr)
          THEN rop.key = Hex2Bytes(rop.addr) /\ rop.err = NoErr
          ELSE rop.key = NilKey /\ rop.err.type = "immutable address not a content hash"

\* an immutable URI resolved while a resolver that would succeed is configured
C2_Witness ==
    /\ rop.op = "ApiResolve" /\ rop.scheme = "bzz-immutable"
    /\ dnsSet /\ MultiResolverResolve(resolvers, rop.addr).err = NoErr
    /\ rop.err # NoErr

\* C7: the buffer AppendFile stores holds the old content in [0, offset), the
\* first addSize bytes of the new content in [offset, offset+addSize) and, when
\* existingSize > offset+addSize, the old content in [offset+addSize, existingSize).
C7_AppendBuffer ==
    (/\ ap.pc = "buffered"
     /\ ap.existingSize = Len(ap.old) /\ ap.offset <= ap.existingSize
     /\ ap.addSize <= Len(ap.content))
    => /\ \A i \in 1..ap.offset : ap.buf[i] = ap.old[i]
       /\ \A i \in 1..ap.addSize : ap.buf[ap.offset + i] = ap.content[i]
       /\ \A i \in (ap.offset + ap.addSize + 1)..ap.existingSize : ap.buf[i] = ap.old[i]

\* C3: once the completion signal of put(content, contentType) is satisfied,
\* get(root, "") returns a reader that yields content and the MIME type contentType.
C3_PutGetRoundTrip ==
    \A h \in handed :
        (/\ h.op = "Put" /\ WaitSatisfied(h)
         /\ last.op = "Get" /\ last.key = h.root /\ last.path = <<>>)
        => /\ ReadAll(store, last.res.reader) = [ok |-> TRUE, bytes |-> h.content]
           /\ last.res.mimeType = h.contentType
           /\ last.res.err = NoGetErr

\* the entry the last Get found, and the update behind it when it is a resource pointer
LastEntry ==
    LET m == loadManifest(store, last.key)
    IN  IF m.ok THEN getEntry(store, m.trie, last.path) ELSE NoEntry
LastIsResource ==
    /\ last.op = "Get"
    /\ LastEntry # NoEntry /\ LastEntry.ContentType = ResourceContentType
    /\ LastEntry.Hash \in DOMAIN resources /\ resources[LastEntry.Hash].synced
LastUpdate == resources[LastEntry.Hash]
RawCase == LastIsResource /\ ~LastUpdate.Multihash

\* C8: get on a resource pointer whose multihash-flagged payload decodes to a
\* digest of another algorithm returns a non-empty error with status 422 and
\* no content reader.
C8_UnsupportedDigest ==
    (/\ LastIsResource /\ LastUpdate.Multihash
     /\ LastUpdate.data.wellFormed /\ LastUpdate.data.code # KECCAK_256)
    => /\ last.res.err # NoGetErr
       /\ last.res.status = StatusUnprocessableEntity
       /\ last.res.reader = NoReader

StartFiles == {<<"a">>, <<"a", "a">>, <<"a", "b">>}

RECURSIVE BuildTrie(_)
BuildTrie(paths) ==
    IF paths = {} THEN {}
    ELSE LET path == CHOOSE x \in paths : TRUE
         IN  addEntry(EmptyFcn, BuildTrie(paths \ {path}),
                      TrieEntry(ManifestEntry(path, HexOf(KeyOf(ContentBlock(<<"p">>))), <<"t">>)))

InitModify ==
    /\ ResolverIdle /\ ap = ApIdle
    /\ mod = [p \in Procs |-> ModIdle] /\ waiter = WaitIdle /\ lookup = LookupIdle /\ pss = PssIdle
    /\ \E files \in SUBSET StartFiles :
          /\ store = StoreAll(EmptyFcn, WritesOf(BuildTrie(files))
                                        \cup {ContentBlock(c) : c \in FileContents})
          /\ handed = {EditOk("Modify", KeyOf(PageBlock(PageOf(BuildTrie(files)))),
                             BuildTrie(files), <<>>)}
    /\ pending = EmptyFcn /\ resources = EmptyFcn
    /\ last = NoLast /\ nops = NoCalls

NextModify ==
    \/ \E p \in Procs, h \in handed, path \in ModPaths, ch \in ModHashes :
          ModifyLoad(p, h.root, path, ch, IF ch = EmptyHash THEN <<>> ELSE <<"t">>)
    \/ \E p \in Procs : ModifyEdit(p)
    \/ \E p \in Procs : ModifyStore(p)

SpecModify == InitModify /\ [][NextModify]_vars

\* ------------------------------------------------------------ directory tree
\* the error loadManifest and loadSubTrie return for a page the store cannot
\* give: the error of the store
LoadError(key) == Err("StoreError", key)

\* fmt.Errorf(format + " %v: %v", key.String(), err): a new error value made
\* of the text of its arguments
Errorf(format, key, e) == Err("fmt.Errorf", <<format, key, e>>)

\* the slots of a page in the order listWithPrefix walks them
SlotOrder == <<"/", "a", "b", "">>

\* mutant: the entry is listed under its path within its page
SuffixOfPage(rp, path, plen) == path

\* the key an entry is listed under: its path after the prefix
Suffix(rp, path, plen) == rp \o Drop(path, plen)

\* manifestTrie.listWithPrefix: depth-first over the slots of each page, every
\* leaf whose path starts with the prefix is handed to the callback with its
\* suffix; a page that cannot be loaded ends the walk with the error. seen
\* holds the callback's calls so far.
RECURSIVE listWithPrefixInt(_, _, _, _, _, _)
listWithPrefixInt(st, trie, prefix, rp, i, seen) ==
    IF i > Len(SlotOrder) THEN [err |-> NoErr, seen |-> seen]
    ELSE LET entry == At(trie, SlotOrder[i])
             plen == Len(prefix)
             l == Min(plen, Len(entry.Path))
         IN  IF entry = NoEntry \/ (plen > 0 /\ SlotOrder[i] # prefix[1])
             THEN listWithPrefixInt(st, trie, prefix, rp, i + 1, seen)
             ELSE IF entry.ContentType = ManifestType
             THEN IF SubSeq(prefix, 1, l) # SubSeq(entry.Path, 1, l)
                  THEN listWithPrefixInt(st, trie, prefix, rp, i + 1, seen)
                  ELSE LET sub == loadSubTrie(st, entry)
                           r == listWithPrefixInt(st, sub.trie, Drop(prefix, l),
                                                  rp \o Drop(entry.Path, l), 1, seen)
                       IN  IF ~sub.ok
                           THEN [err |-> LoadError(HashToKey(entry.Hash)), seen |-> seen]
                           ELSE IF r.err # NoErr THEN r
                           ELSE listWithPrefixInt(st, trie, prefix, rp, i + 1, r.seen)
             ELSE IF IsPrefix(prefix, entry.Path)
             THEN listWithPrefixInt(st, trie, prefix, rp, i + 1,
                      seen \cup {<<Suffix(rp, entry.Path, plen), entry>>})
             ELSE listWithPrefixInt(st, trie, prefix, rp, i + 1, seen)

listWithPrefix(st, trie, prefix) == listWithPrefixInt(st, trie, prefix, <<>>, 1, {})

\* manifestEntryMap[suffix] = entry for each call of the callback
EntryMap(seen) ==
    [s \in {x[1] : x \in seen} |-> (CHOOSE x \in seen : x[1] = s)[2]]

TreeResult(key, map, err, cause) ==
    [key |-> key, manifestEntryMap |-> map, err |-> err, cause |-> cause]

\* mutant: the entries listed before the walk failed are returned with the error
BuildDirectoryTreePartial(st, mkey, path) ==
    LET m == loadManifest(st, mkey)
        r == listWithPrefix(st, m.trie, path)
    IN  IF ~m.ok
        THEN TreeResult(NoKey, EmptyFcn, Errorf("can't load manifest", mkey, LoadError(mkey)),
                        LoadError(mkey))
        ELSE IF r.err # NoErr
        THEN TreeResult(NoKey, EntryMap(r.seen), Errorf("list with prefix failed", mkey, r.err),
                        r.err)
        ELSE TreeResult(mkey, EntryMap(r.seen), NoErr, NoErr)

\* api.go:622-648 Api.BuildDirectoryTree; mhash is the hex of mkey followed by
\* "/" and path, which Parse and Resolve give back as mkey and path. cause is
\* the error the store gave, kept beside the results of the call.
BuildDirectoryTreeOf(st, mkey, path) ==
    LET m == loadManifest(st, mkey)
        r == listWithPrefix(st, m.trie, path)
    IN  IF ~m.ok
        THEN TreeResult(NoKey, EmptyFcn, Errorf("can't load manifest", mkey, LoadError(mkey)),
                        LoadError(mkey))
        ELSE IF r.err # NoErr
        THEN TreeResult(NoKey, EmptyFcn, Errorf("list with prefix failed", mkey, r.err), r.err)
        ELSE TreeResult(mkey, EntryMap(r.seen), NoErr, NoErr)

BuildDirectoryTree(mkey, path) ==
    /\ last.op = "none"
    /\ last' = [op |-> "BuildDirectoryTree", mkey |-> mkey, path |-> path,
                res |-> BuildDirectoryTreeOf(store, mkey, path)]
    /\ UNCHANGED <<store, pending, resources, handed, nops, mod, rvars, ap, waiter, lookup, pss>>

\* the manifests listed: those of every set of the files below; lost are the
\* pages the store cannot give when asked
TreeFiles == {<<"a">>, <<"b", "a">>, <<"b", "b", "a">>, <<"b", "b", "b">>}
TreePrefixes == SeqsUpTo({"a", "b"}, MaxPathLen)

InitTree ==
    /\ ResolverIdle /\ ap = ApIdle
    /\ \E files \in SUBSET TreeFiles :
          \E lost \in SUBSET {KeyOf(b) : b \in WritesOf(BuildTrie(files))} :
              LET all == StoreAll(EmptyFcn, WritesOf(BuildTrie(files))
                                            \cup {ContentBlock(c) : c \in FileContents})
              IN  /\ store = [k \in DOMAIN all \ lost |-> all[k]]
                  /\ handed = {EditOk("Modify", KeyOf(PageBlock(PageOf(BuildTrie(files)))),
                                      BuildTrie(files), <<>>)}
    /\ pending = EmptyFcn /\ resources = EmptyFcn
    /\ last = NoLast /\ nops = NoCalls
    /\ mod = <<>> /\ waiter = WaitIdle /\ lookup = LookupIdle /\ pss = PssIdle

NextTree ==
    \/ \E h \in handed, path \in TreePrefixes : BuildDirectoryTree(h.root, path)
    \/ Returned

SpecTree == InitTree /\ [][NextTree]_vars

\* ------------------------------------------------------------ collaborator calls
\* the resolver maps the calls start from: a default chain whose first backend
\* fails, and a chain of the TLD "a" in which one failing backend is kept twice
CallResolvers ==
    {[t \in {<<>>} |-> <<"fail1", "ok1">>],
     [t \in {<<>>, <<"a">>} |-> IF t = <<>> THEN <<"fail1", "fail2">>
                                ELSE <<"fail1", "fail1", "ok2">>]}
CallNames == {<<"a">>, <<"a", ".", "a">>}

\* the latest update of the resource r1 the calls start from: none, or a
\* multihash update of a digest the store holds or does not hold
CallResources ==
    {EmptyFcn}
    \cup {[n \in {NameHash("r1")} |-> Update(TRUE, Payload(KECCAK_256, TRUE, digest), synced)] :
             digest \in {KeyOf(FixtureManifest), KeyOf(PageBlock({}))}, synced \in BOOLEAN}

InitCalls ==
    /\ resolvers \in CallResolvers /\ dnsSet = TRUE /\ rop = NoOp
    /\ ap = ApIdle
    /\ store = Stored(FixtureTreeStore, KeyOf(FixturePointerPage), FixturePointerPage)
    /\ pending = EmptyFcn /\ resources \in CallResources
    /\ handed = {FixturePut, FixturePointer} /\ last = NoLast /\ nops = NoCalls
    /\ mod = [p \in Procs |-> ModIdle] /\ waiter = WaitIdle /\ lookup = LookupIdle /\ pss = PssIdle

NextCalls ==
    \/ Return
    \/ \E addr \in CallNames : DoResolve(addr)
    \/ \E c \in PutContents, f \in 0..2 : Put(c, <<"t">>, f)
    \/ \E k \in DOMAIN pending : StoreComplete(k)
    \/ \E h \in handed, path \in GetPaths : Get(h.root, path)
    \/ Returned
    \/ \E h \in handed, ch \in ModHashes : ModifyLoad(1, h.root, <<"a">>, ch, <<"t">>)
    \/ ModifyEdit(1)
    \/ ModifyStore(1)

SpecCalls == InitCalls /\ [][NextCalls]_vars

\* ------------------------------------------------------------ resource round trips
\* a context: whether it can be cancelled, whether it carries a deadline
Context(cancel, deadline) == [cancel |-> cancel, deadline |-> deadline]

\* api.go:343 context.WithCancel(context.Background()); cancel is deferred, so
\* it is called when Get returns and not before
GetContext == Context(TRUE, FALSE)

\* the context a caller of ResourceLookup hands in: cancellable, with a deadline
CallerContext == Context(TRUE, TRUE)

\* api.go:653-661 the lookup ResourceLookup makes for a period and a version
LookupKind(period, version) ==
    IF version # 0 THEN "LookupVersionByName"
    ELSE IF period # 0 THEN "LookupHistoricalByName"
    ELSE "LookupLatestByName"

\* api.go:657-661 what the lookup is handed besides the name
LookupArgs(period, version) ==
    IF version # 0 THEN <<period, version>>
    ELSE IF period # 0 THEN <<period>>
    ELSE <<>>

\* what a caller of ResourceLookup asks for; Get asks for the latest update
Request(name, period, version) == [name |-> name, period |-> period, version |-> version]
LookupArg(req) == [name |-> req.name, args |-> LookupArgs(req.period, req.version)]

Waiting(by, kind, req, ctx, hangs, key, path, name) ==
    [pc |-> "waiting", by |-> by, kind |-> kind, req |-> req, ctx |-> ctx, hangs |-> hangs,
     key |-> key, path |-> path, name |-> name, outcome |-> "", err |-> NoGetErr]

\* api.go:341-345 Get finds a resource pointer at the path and calls
\* LookupLatestByName under its context; hangs says that the round trip to the
\* collaborator never completes
GetLookup(manifestKey, path, hangs) ==
    LET m == loadManifest(store, manifestKey)
        entry == getEntry(store, m.trie, path)
    IN  /\ last.op = "none" /\ lookup.pc # "waiting"
        /\ m.ok /\ entry # NoEntry /\ entry.ContentType = ResourceContentType
        /\ lookup' = Waiting("Get", "LookupLatestByName", Request(entry.Hash, 0, 0),
                             GetContext, hangs, manifestKey, path, entry.Hash)
        /\ UNCHANGED <<store, pending, resources, handed, last, nops, mod, rvars, ap, waiter, pss>>

NoPayload == Payload("", FALSE, NoKey)

\* storage.NewResourceError(code, s)
ErrInvalidValue == "ErrInvalidValue"
NewResourceError(code, s) == [type |-> s, key |-> EmptyHash, code |-> code]

ResourceResult(req, key, data, err, calls) ==
    [op |-> "ResourceLookup", req |-> req, key |-> key, data |-> data, err |-> err,
     calls |-> calls]

\* mutant: the lookup is made whatever the period
ResourceLookupAnyPeriod(name, period, version, hangs) ==
    /\ last.op = "none" /\ lookup.pc # "waiting"
    /\ lookup' = Waiting("ResourceLookup", LookupKind(period, version),
                         Request(NameHash(name), period, version), CallerContext,
                         hangs, NoKey, <<>>, NameHash(name))
    /\ UNCHANGED last
    /\ UNCHANGED <<store, pending, resources, handed, nops, mod, rvars, ap, waiter, pss>>

\* api.go:651-667 Api.ResourceLookup under the context of its caller
ResourceLookup(name, period, version, hangs) ==
    /\ last.op = "none" /\ lookup.pc # "waiting"
    /\ IF version # 0 /\ period = 0
       THEN /\ last' = ResourceResult(Request(NameHash(name), period, version), NoKey,
                                      NoPayload,
                                      NewResourceError(ErrInvalidValue, "Period can't be 0"),
                                      <<>>)
            /\ UNCHANGED lookup
       ELSE /\ lookup' = Waiting("ResourceLookup", LookupKind(period, version),
                                 Request(NameHash(name), period, version), CallerContext,
                                 hangs, NoKey, <<>>, NameHash(name))
            /\ UNCHANGED last
    /\ UNCHANGED <<store, pending, resources, handed, nops, mod, rvars, ap, waiter, pss>>

\* the results of the operation when its lookup ended with the error e
LookupFailed(e) ==
    IF lookup.by = "Get"
    THEN [op |-> "Get", key |-> lookup.key, path |-> lookup.path,
          res |-> GetResult(NoReader, <<>>, StatusNotFound, NoKey, e),
          calls |-> <<Call("loadManifest", lookup.key, FALSE),
                      Call(lookup.kind, lookup.name, TRUE)>>]
    ELSE ResourceResult(lookup.req, NoKey, NoPayload, e,
                        <<Call(lookup.kind, LookupArg(lookup.req), TRUE)>>)

\* storage.ResourceHandler.LookupHistoricalByName and LookupVersionByName:
\* found says whether the resource has an update at the period (and version)
LookupAt(res, name, found) ==
    IF name \in DOMAIN res /\ found THEN [rsrc |-> res[name], err |-> NoGetErr]
    ELSE [rsrc |-> Update(FALSE, NoPayload, FALSE), err |-> GetErr("resource not found")]

\* mutant: the content is fetched whatever the lookup returned
ResourceLookupEndFetches(res, found) ==
    LET look == IF lookup.kind = "LookupLatestByName"
                THEN LookupLatestByName(res, lookup.name)
                ELSE LookupAt(res, lookup.name, found)
        cont == GetContent(res, lookup.name)
        c1 == Call(lookup.kind, LookupArg(lookup.req), look.err # NoGetErr)
    IN  ResourceResult(lookup.req, lookup.name, cont.data, cont.err,
                       <<c1, Call("GetContent", lookup.name, cont.err # NoGetErr)>>)

\* api.go:657-666 the collaborator has answered the lookup: its error is
\* returned, or the content of the name is fetched
ResourceLookupEnd(res, found) ==
    LET look == IF lookup.kind = "LookupLatestByName"
                THEN LookupLatestByName(res, lookup.name)
                ELSE LookupAt(res, lookup.name, found)
        cont == GetContent(res, lookup.name)
        c1 == Call(lookup.kind, LookupArg(lookup.req), look.err # NoGetErr)
    IN  IF look.err # NoGetErr
        THEN ResourceResult(lookup.req, NoKey, NoPayload, look.err, <<c1>>)
        ELSE ResourceResult(lookup.req, lookup.name, cont.data, cont.err,
                            <<c1, Call("GetContent", lookup.name, cont.err # NoGetErr)>>)

\* the round trip completes: the operation goes on to its end
LookupAnswer ==
    /\ lookup.pc = "waiting" /\ ~lookup.hangs
    /\ \E found \in BOOLEAN :
          /\ last' = IF lookup.by = "Get"
                     THEN [op |-> "Get", key |-> lookup.key, path |-> lookup.path,
                           res |-> ApiGet(store, resources, lookup.key, lookup.path),
                           calls |-> GetCalls(store, resources, lookup.key, lookup.path)]
                     ELSE ResourceLookupEnd(resources, found)
          /\ lookup' = [lookup EXCEPT !.pc = "done", !.outcome = "answered",
                           !.err = IF lookup.by = "Get"
                                   THEN LookupLatestByName(resources, lookup.name).err
                                   ELSE IF last'.calls[1].failed THEN last'.err
                                   ELSE NoGetErr]
    /\ UNCHANGED <<store, pending, resources, handed, nops, mod, rvars, ap, waiter, pss>>

\* the deadline of the context passes: the lookup returns the context's error
LookupDeadline ==
    /\ lookup.pc = "waiting" /\ lookup.ctx.deadline
    /\ lookup' = [lookup EXCEPT !.pc = "done", !.outcome = "timeout",
                                !.err = GetErr("context deadline exceeded")]
    /\ last' = LookupFailed(GetErr("context deadline exceeded"))
    /\ UNCHANGED <<store, pending, resources, handed, nops, mod, rvars, ap, waiter, pss>>

\* the caller of ResourceLookup cancels the context it handed in; the cancel
\* function of Get's context is held by Get alone, which is waiting
LookupCancel ==
    /\ lookup.pc = "waiting" /\ lookup.ctx.cancel /\ lookup.by = "ResourceLookup"
    /\ lookup' = [lookup EXCEPT !.pc = "done", !.outcome = "cancelled",
                                !.err = GetErr("context canceled")]
    /\ last' = LookupFailed(GetErr("context canceled"))
    /\ UNCHANGED <<store, pending, resources, handed, nops, mod, rvars, ap, waiter, pss>>

Periods == 0..MaxPeriod
Versions == 0..MaxVersion

InitLookup ==
    /\ ResolverIdle /\ ap = ApIdle
    /\ store = Stored(FixtureTreeStore, KeyOf(FixturePointerPage), FixturePointerPage)
    /\ pending = EmptyFcn /\ resources = EmptyFcn
    /\ handed = {FixturePut, FixturePointer} /\ last = NoLast /\ nops = NoCalls
    /\ mod = <<>> /\ waiter = WaitIdle /\ lookup = LookupIdle /\ pss = PssIdle

NextLookup ==
    \/ \E h \in handed, path \in GetPaths, hangs \in BOOLEAN : GetLookup(h.root, path, hangs)
    \/ \E name \in ResourceNames, period \in Periods, version \in Versions, hangs \in BOOLEAN :
          ResourceLookup(name, period, version, hangs)
    \/ LookupAnswer
    \/ LookupDeadline
    \/ LookupCancel
    \/ \E name \in ResourceNames, mh \in BOOLEAN, synced \in BOOLEAN :
          ResourceUpdate(name, Payload(KECCAK_256, TRUE, KeyOf(FixtureManifest)), mh, synced)
    \/ Returned

\* the collaborator answers a round trip that does not hang, and time passes
SpecLookup ==
    /\ InitLookup /\ [][NextLookup]_vars
    /\ WF_vars(LookupAnswer) /\ WF_vars(LookupDeadline)

\* ---------------------------------------------------------- pss handlers
\* src/unnamed/part_000: the two handlers a node registers for PssMsg.  The
\* Pss object itself (isSelfRecipient, GetHandler, Forward) is a collaborator:
\* its answers are inputs of the handler, its calls are recorded.
MaxPssMsgs == 2     \* messages one node handles in one behaviour
PssAddrs == {"n", "p"}
PssTopics == {"s", "t"}
PssPayloads == {<<"a">>, <<"b">>}
PssHandleFuncs == {"makePssHandleForward", "makePssHandleProtocol"}

\* part_000:838-844 the envelope makeFakeMsg builds
PssEnvelope(senderO, senderU, topic, payload) ==
    [SenderOAddr |-> senderO, SenderUAddr |-> senderU, Topic |-> topic, Payload |-> payload]

\* part_000:845-848
PssMsg(to, env) == [To |-> to, Payload |-> env]

PssMsgs ==
    {PssMsg(to, PssEnvelope(s, s, t, p)) :
        to \in PssAddrs, s \in PssAddrs, t \in PssTopics, p \in PssPayloads}

\* what one run of a handler did: the calls of registered topic handlers, the
\* messages handed to Forward, the error it returned
Handled(delivered, forwarded, err) ==
    [delivered |-> delivered, forwarded |-> forwarded, err |-> err]

\* part_000:877 f(umsg, p, env.SenderOAddr), p made of env.SenderUAddr
HandlerCall(topic, umsg, peer, sender) ==
    [topic |-> topic, msg |-> umsg, peer |-> peer, sender |-> sender]

\* the error a failing collaborator call returns, and the handler with it
PssCallError(fails, call) == IF fails THEN Err("PssError", <<call>>) ELSE NoErr

\* part_000:849-861: forUs is the answer of isSelfRecipient, fails says that
\* Forward returns an error
makePssHandleForward(ps, pssmsg, forUs, fails) ==
    IF forUs
    THEN Handled(<<>>, <<>>, NoErr)
    ELSE Handled(<<>>, <<pssmsg>>, PssCallError(fails, "Forward"))

makePssHandleProtocolWhole(ps, pssmsg, forUs, fails) ==
    IF forUs
    THEN LET env == pssmsg.Payload
         IN  IF env.Topic \notin ps.handlers
             THEN Handled(<<>>, <<>>,
                          Err("fmt.Errorf", <<"No registered handler for topic '%s'", env.Topic>>))
             ELSE Handled(<<HandlerCall(env.Topic, <<env.Topic>> \o env.Payload, env.SenderUAddr,
                                      env.SenderOAddr)>>,
                          <<>>, PssCallError(fails, "handler"))
    ELSE Handled(<<>>, <<pssmsg>>, PssCallError(fails, "Forward"))

\* part_000:863-885: fails says that the topic handler, or Forward, returns an
\* error
makePssHandleProtocol(ps, pssmsg, forUs, fails) ==
    IF forUs
    THEN LET env == pssmsg.Payload
             umsg == env.Payload
         IN  IF env.Topic \notin ps.handlers
             THEN Handled(<<>>, <<>>,
                          Err("fmt.Errorf", <<"No registered handler for topic '%s'", env.Topic>>))
             ELSE Handled(<<HandlerCall(env.Topic, umsg, env.SenderUAddr, env.SenderOAddr)>>,
                          <<>>, PssCallError(fails, "handler"))
    ELSE Handled(<<>>, <<pssmsg>>, PssCallError(fails, "Forward"))

\* part_000:746-782 newPssTester: a node with its Pss, the topics registered
\* on it and the handler it registers for PssMsg
PssNode(addr, handlefunc, handlers) ==
    [pc |-> "running", addr |-> addr, handlefunc |-> handlefunc,
     handlers |-> handlers, handled |-> <<>>]

\* part_000:770 the node receives a PssMsg from a peer and runs its handler
HandlePssMsg(pssmsg, forUs, fails) ==
    /\ pss.pc = "running" /\ Len(pss.handled) < MaxPssMsgs
    /\ pss' = [pss EXCEPT !.handled = Append(@,
                 [msg |-> pssmsg, self |-> forUs,
                  out |-> IF pss.handlefunc = "makePssHandleForward"
                          THEN makePssHandleForward(pss, pssmsg, forUs, fails)
                          ELSE makePssHandleProtocol(pss, pssmsg, forUs, fails)])]
    /\ UNCHANGED <<rvars, ap, store, pending, resources, handed, last, nops, mod, waiter, lookup>>

InitPss ==
    /\ ResolverIdle /\ ap = ApIdle
    /\ store = EmptyFcn /\ pending = EmptyFcn /\ resources = EmptyFcn
    /\ handed = {} /\ last = NoLast /\ nops = NoCalls
    /\ mod = <<>> /\ waiter = WaitIdle /\ lookup = LookupIdle
    /\ \E addr \in PssAddrs, handlefunc \in PssHandleFuncs, handlers \in SUBSET PssTopics :
          pss = PssNode(addr, handlefunc, handlers)

NextPss == \E pssmsg \in PssMsgs, forUs \in BOOLEAN, fails \in BOOLEAN :
              HandlePssMsg(pssmsg, forUs, fails)

SpecPss == InitPss /\ [][NextPss]_vars

\* ------------------------------------------------------------ stored manifests
\* A manifest need not be written by Put or by an edit: Api.Store stores the
\* bytes a caller hands it, and Get loads the manifest at whatever key it is
\* given. The status field of an entry is part of the stored manifest.
MaxStores == 2      \* Store calls in one behaviour
EntryStatuses ==
    {0, StatusOK, StatusMultipleChoices, StatusNotFound, StatusUnprocessableEntity,
     StatusInternalServerError}

\* a manifest of one leaf for the content "p", its status field set
UploadedManifest(path, status) ==
    PageBlock({[ManifestEntry(path, HexOf(KeyOf(FixtureContent)), <<"t">>)
                   EXCEPT !.Status = status]})
Uploads == {UploadedManifest(path, status) : path \in {<<>>, <<"a">>}, status \in EntryStatuses}

StoreResult(key, waits, err) ==
    [op |-> "Store", root |-> key, waits |-> waits, content |-> <<>>, contentType |-> <<>>,
     err |-> err, wrote |-> {}]

\* api.go:242 Api.Store: the result of dpa.Store
Store(data, fails) ==
    /\ last.op = "none"
    /\ nops.put < MaxStores
    /\ nops' = [nops EXCEPT !.put = @ + 1]
    /\ IF fails
       THEN /\ last' = StoreResult(NoKey, {}, "store error")
            /\ UNCHANGED <<pending, handed>>
       ELSE /\ last' = StoreResult(KeyOf(data), {KeyOf(data)}, "")
            /\ pending' = Issue(store, pending, data)
            /\ handed' = handed \cup {last'}
    /\ UNCHANGED <<store, resources, mod, rvars, ap, waiter, lookup, pss>>

InitStore ==
    /\ ResolverIdle /\ ap = ApIdle
    /\ store = FixtureStore /\ pending = EmptyFcn /\ resources = EmptyFcn
    /\ handed = {FixturePut} /\ last = NoLast /\ nops = NoCalls
    /\ mod = <<>> /\ waiter = WaitIdle /\ lookup = LookupIdle /\ pss = PssIdle

NextStore ==
    \/ \E data \in Uploads, fails \in BOOLEAN : Store(data, fails)
    \/ \E k \in DOMAIN pending : StoreComplete(k)
    \/ \E h \in handed, path \in GetPaths : Get(h.root, path)
    \/ Returned

SpecStore == InitStore /\ [][NextStore]_vars

\* ------------------------------------------------------------ snapshots
FixtureRoot == ModifyRef(FixtureTrie)
EditOps == {"Modify", "AddFile", "RemoveFile", "AppendFile"}
TriePaths == ModPaths \cup {Join(TrimRoot(d), f) : d \in DirPaths \ {<<>>}, f \in FileNames}

\* what a root key references: its page, the pages under its entries of
\* manifest type and the blocks of its leaves
RECURSIVE Refs(_)
Refs(key) ==
    IF key = NoKey THEN {}
    ELSE LET r == ReadManifest(key.k)
         IN  {key} \cup UNION {IF e.ContentType = ManifestType THEN Refs(HashToKey(e.Hash))
                               ELSE {HashToKey(e.Hash)} \ {NoKey} : e \in r.entries}

\* a step of an editing call
EditStep == nops'.edit # nops.edit \/ mod' # mod

\* C4: editing never mutates an existing snapshot: no durable block changes in
\* any step, and across every step of modify, addFile, removeFile and
\* appendFile get on every root handed before gives, for every path, the
\* outcome it gave before the step.
C4_SnapshotsUnchanged ==
    [][/\ \A k \in DOMAIN store : k \in DOMAIN store' /\ store'[k] = store[k]
       /\ EditStep =>
            \A h \in handed : \A path \in TriePaths :
                ApiGet(store', resources', h.root, path) = ApiGet(store, resources, h.root, path)]_vars

\* an edit has handed a new root that reads differently from the starting
\* root, and the starting root still serves its two files
C4_Witness ==
    \E h \in handed :
        /\ h.op \in EditOps /\ h.err = "" /\ h.root # FixtureRoot
        /\ \E path \in TriePaths :
              ApiGet(store, resources, h.root, path) # ApiGet(store, resources, FixtureRoot, path)
        /\ ApiGet(store, resources, FixtureRoot, <<"a">>).contentKey = KeyOf(ContentBlock(<<"p">>))
        /\ ApiGet(store, resources, FixtureRoot, <<"a", "a">>).contentKey = KeyOf(ContentBlock(<<"q">>))

EditedLeaves(leaves, path, contentHash, contentType) ==
    {l \in leaves : l[1] # path}
    \cup (IF contentHash # EmptyHash THEN {<<path, contentHash, contentType>>} ELSE {})

\* C6: modify calls interleaved in any order never corrupt state: each call
\* that returns a root returns the root it would return run alone on the store
\* it started from, the snapshot it started from is unchanged, and the leaves
\* of its root are those of the starting root with its own edit and nothing
\* else.
C6_ConcurrentModify ==
    \A p \in Procs :
        mod[p].pc = "done" /\ mod[p].ok =>
            /\ mod[p].ref = ModifyAlone(mod[p].snap, mod[p].key, mod[p].path,
                                        mod[p].contentHash, mod[p].contentType)
            /\ \A k \in DOMAIN mod[p].snap : k \in DOMAIN store /\ store[k] = mod[p].snap[k]
            /\ Leaves(store, mod[p].key) = Leaves(mod[p].snap, mod[p].key)
            /\ Leaves(store, mod[p].ref) =
                  EditedLeaves(Leaves(mod[p].snap, mod[p].key), mod[p].path,
                               mod[p].contentHash, mod[p].contentType)

\* two calls on the same root, each loaded before the other stored, have
\* returned two different new roots
C6_Witness ==
    /\ mod[1].pc = "done" /\ mod[2].pc = "done" /\ mod[1].ok /\ mod[2].ok
    /\ mod[1].key = mod[2].key
    /\ mod[1].ref # mod[2].ref
    /\ mod[1].ref \notin DOMAIN mod[2].snap /\ mod[2].ref \notin DOMAIN mod[1].snap
    /\ mod[1].path # mod[2].path

\* C11: the function put returns comes back only after both the content write
\* and the manifest write are durable, in whatever order the two complete; and
\* a manifest write is issued only when the content block its entry names has
\* been issued.
C11_WaitsForBoth ==
    /\ waiter.pc = "done" => {waiter.content, waiter.root} \subseteq DOMAIN store
    /\ \A h \in handed :
          (h.op = "Put" /\ h.err = "" /\ h.root \in DOMAIN pending \cup DOMAIN store)
          => /\ KeyOf(ContentBlock(h.content)) \in DOMAIN pending \cup DOMAIN store
             /\ \A e \in h.root.k.entries : HashToKey(e.Hash) = KeyOf(ContentBlock(h.content))

\* the function was called when only the manifest write was durable, and has
\* returned
C11_Witness ==
    /\ waiter.pc = "done"
    /\ waiter.found = {waiter.root}
    /\ waiter.content # waiter.root

\* C12: Resolve selects the chain registered for the TLD of the name; for a
\* name without TLD, or with a TLD that has no chain, the default chain; and
\* when there is neither it fails with NoResolverError carrying the TLD and
\* calls no backend. The chain selected is the one whose first backend is
\* called first.
C12_ChainSelection ==
    rop.op = "Resolve" =>
        LET tld == TldOf(rop.addr)
        IN  IF HasTld(rop.addr) /\ tld \in DOMAIN resolvers
            THEN rop.calls # <<>> /\ \A i \in 1..Len(rop.calls) : rop.calls[i] = <<tld, i>>
            ELSE IF <<>> \in DOMAIN resolvers
            THEN rop.calls # <<>> /\ \A i \in 1..Len(rop.calls) : rop.calls[i] = <<<<>>, i>>
            ELSE rop.err = NewNoResolverError(tld) /\ rop.calls = <<>> /\ rop.key = ZeroHash

\* a name whose TLD has no chain was resolved by the default chain, while
\* another TLD has a chain
C12_Witness ==
    /\ rop.op = "Resolve" /\ HasTld(rop.addr) /\ TldOf(rop.addr) # <<>>
    /\ TldOf(rop.addr) \notin DOMAIN resolvers
    /\ <<>> \in DOMAIN resolvers /\ <<"a">> \in DOMAIN resolvers
    /\ rop.calls # <<>> /\ rop.calls[1] = <<<<>>, 1>>

\* C13: within the selected chain Resolve calls the backends in registration
\* order, every backend called before the last call has failed, a backend
\* that succeeds ends the calls and its hash is returned, and when all
\* backends of the chain fail the error of the last one is returned.
C13_FirstSuccess ==
    (rop.op = "Resolve" /\ rop.calls # <<>>) =>
        LET chain == resolvers[rop.calls[1][1]]
            n == Len(rop.calls)
            res(i) == BackendResolve(chain[i], rop.addr)
        IN  /\ n <= Len(chain)
            /\ \A i \in 1..n : rop.calls[i] = <<rop.calls[1][1], i>>
            /\ \A i \in 1..(n - 1) : res(i).err # NoErr
            /\ IF res(n).err = NoErr
               THEN rop.key = res(n).h /\ rop.err = NoErr
               ELSE n = Len(chain) /\ rop.err = res(n).err

\* a failing backend, then a succeeding one whose hash is returned, then one
\* more that would have succeeded with another hash and was not called
C13_Witness ==
    /\ rop.op = "Resolve" /\ Len(rop.calls) = 2
    /\ Len(resolvers[rop.calls[1][1]]) = 3
    /\ BackendResolve(resolvers[rop.calls[1][1]][3], rop.addr).err = NoErr
    /\ BackendResolve(resolvers[rop.calls[1][1]][3], rop.addr).h # rop.key
    /\ rop.err = NoErr

\* C14: Api.Resolve on a URI that is not immutable: without a resolver it
\* returns the address parsed as a hash, or fails; with a resolver it returns
\* the resolver's result when the resolver succeeds, and when the resolver
\* fails the address parsed as a hash if it is a well-formed hash, otherwise
\* the error of the resolver.
C14_ResolveFallback ==
    (rop.op = "ApiResolve" /\ rop.scheme # "bzz-immutable") =>
        LET r == MultiResolverResolve(resolvers, rop.addr)
        IN  IF ~dnsSet
            THEN /\ ~rop.asked /\ rop.calls = <<>>
                 /\ IF isHexHash(rop.addr)
                    THEN rop.key = Hex2Bytes(rop.addr) /\ rop.err = NoErr
                    ELSE rop.key = NilKey /\ rop.err = Err("no DNS to resolve name", rop.addr)
            ELSE /\ rop.asked /\ rop.calls = r.calls
                 /\ IF r.err = NoErr THEN rop.key = r.h /\ rop.err = NoErr
                    ELSE IF isHexHash(rop.addr)
                    THEN rop.key = Hex2Bytes(rop.addr) /\ rop.err = NoErr
                    ELSE rop.key = NilKey /\ rop.err = r.err

\* an address that is a well-formed hash was resolved by a backend to another
\* key
C14_Witness ==
    /\ rop.op = "ApiResolve" /\ rop.scheme = "bzz" /\ dnsSet
    /\ isHexHash(rop.addr) /\ rop.calls # <<>>
    /\ rop.err = NoErr /\ rop.key # Hex2Bytes(rop.addr)

\* C15: ValidateOwner asks the backends of the selected chain for the owner in
\* order; the first backend whose Owner succeeds decides: the result is
\* whether its address equals the given one, with no error, whatever the
\* backends before it failed with; when every backend fails the result is
\* false with the error of the last backend.
C15_ValidateOwner ==
    (rop.op = "ValidateOwner" /\ rop.calls # <<>>) =>
        LET chain == resolvers[rop.calls[1][1]]
            n == Len(rop.calls)
            own(i) == BackendOwner(chain[i], nameHash(rop.addr))
        IN  /\ rop.calls = getResolveValidator(resolvers, rop.addr).rs
               \/ own(n).err = NoErr
            /\ \A i \in 1..n : rop.calls[i] = <<rop.calls[1][1], i>>
            /\ \A i \in 1..(n - 1) : own(i).err # NoErr
            /\ IF own(n).err = NoErr
               THEN rop.valid = (own(n).addr = rop.address) /\ rop.err = NoErr
               ELSE n = Len(chain) /\ ~rop.valid /\ rop.err = own(n).err

\* a backend failed, the next one answered with the given address: valid, no error
C15_Witness ==
    /\ rop.op = "ValidateOwner" /\ Len(rop.calls) = 2
    /\ BackendOwner(BackendAt(rop.calls[1]), nameHash(rop.addr)).err # NoErr
    /\ rop.valid /\ rop.err = NoErr

\* C16: get returns NotFound (status 404, an error, no content reader) when
\* the manifest at the root key cannot be loaded and when the trie of the root
\* key has no entry for the path.
C16_NotFound ==
    (last.op = "Get" /\ (~loadManifest(store, last.key).ok \/ LastEntry = NoEntry))
    => /\ last.res.status = StatusNotFound
       /\ last.res.err # NoGetErr
       /\ last.res.reader = NoReader

\* the manifest of a completed put was loaded and has no entry for the path
C16_Witness ==
    /\ last.op = "Get" /\ last.path = <<"a">>
    /\ loadManifest(store, last.key).ok /\ loadManifest(store, last.key).trie # {}
    /\ LastEntry = NoEntry
    /\ last.res.status = StatusNotFound

\* C17: when getEntry yields an entry with Status = Ambiguous, get returns the
\* data of that entry (its content type and the key of its hash) with status
\* 300, and opens no content reader.
C17_Ambiguous ==
    (last.op = "Get" /\ LastEntry # NoEntry /\ LastEntry.Status = StatusMultipleChoices)
    => /\ last.res.status = StatusMultipleChoices
       /\ last.res.reader = NoReader
       /\ last.res.mimeType = LastEntry.ContentType
       /\ last.res.contentKey = HashToKey(LastEntry.Hash)
       /\ last.res.err = NoGetErr

\* get for "a" on the manifest of the files "aa" and "ab"
C17_Witness ==
    /\ last.op = "Get" /\ last.key = KeyOf(FixtureTreeRoot) /\ last.path = <<"a">>
    /\ LastEntry.Status = StatusMultipleChoices
    /\ last.res.status = StatusMultipleChoices
    /\ last.res.contentKey = KeyOf(FixtureSubPage)

\* the update of the resource is multihash-flagged and decodes to a digest of
\* the store's algorithm
MultihashCase ==
    /\ LastIsResource /\ LastUpdate.Multihash
    /\ LastUpdate.data.wellFormed /\ LastUpdate.data.code = KECCAK_256

\* C18: when get dereferences a resource pointer whose payload is
\* multihash-flagged and decodes to a digest of the store's algorithm, the
\* digest is the root of the manifest in which the same path is looked up
\* again: the entry found there is served (a reader on its content, its MIME
\* type), and a missing entry or manifest there gives NotFound.
C18_Indirection ==
    MultihashCase =>
        LET m == loadManifest(store, LastUpdate.data.digest)
            e2 == getEntry(store, m.trie, last.path)
        IN  IF ~m.ok \/ e2 = NoEntry
            THEN /\ last.res.status = StatusNotFound
                 /\ last.res.err # NoGetErr
                 /\ last.res.reader = NoReader
            ELSE /\ last.res.err = NoGetErr
                 /\ last.res.contentKey = HashToKey(e2.Hash)
                 /\ last.res.mimeType = e2.ContentType
                 /\ last.res.status = e2.Status
                 /\ e2.Status # StatusMultipleChoices
                    => last.res.reader = Reader(HashToKey(e2.Hash))

\* get for "aa" found a pointer at "aa" to the manifest of the files "aa" and
\* "ab", looked "aa" up there and served the content "p"
C18_Witness ==
    /\ MultihashCase
    /\ last.key = KeyOf(FixturePointerPage) /\ last.path = <<"a", "a">>
    /\ LastUpdate.data.digest = KeyOf(FixtureTreeRoot)
    /\ last.res.reader = Reader(KeyOf(FixtureContent))
    /\ ReadAll(store, last.res.reader) = [ok |-> TRUE, bytes |-> <<"p">>]
    /\ last.res.mimeType = <<"t">>
    /\ last.res.err = NoGetErr

\* q deleted, from the root p returned, the path p had stored a hash at
Undone(p, q) ==
    /\ mod[p].pc = "done" /\ mod[p].ok /\ mod[p].contentHash # EmptyHash
    /\ mod[q].pc = "done" /\ mod[q].ok /\ mod[q].contentHash = EmptyHash
    /\ mod[q].key = mod[p].ref /\ mod[q].path = mod[p].path

\* C19: modify(root, path, hash, ct) giving newRoot, followed by
\* modify(newRoot, path, "", ""), yields a trie in which get for path finds no
\* entry.
C19_DeleteUndoes ==
    \A p, q \in Procs :
        Undone(p, q) =>
            getEntry(store, loadManifest(store, mod[q].ref).trie, mod[q].path) = NoEntry

\* C19 as amended: the trie has no file at path: get for path opens no
\* content reader and returns either NotFound or, when two or more of the
\* files left have the path as a proper prefix, their ambiguous entry with
\* status 300.
C19_DeleteLeavesNoFile ==
    \A p, q \in Procs :
        Undone(p, q) =>
            LET res == ApiGet(store, resources, mod[q].ref, mod[q].path)
                under == {l \in Leaves(store, mod[q].ref) : IsPrefix(mod[q].path, l[1])}
            IN  /\ \A l \in under : l[1] # mod[q].path
                /\ res.reader = NoReader
                /\ res.status \in {StatusNotFound, StatusMultipleChoices}
                /\ res.status = StatusMultipleChoices => Cardinality(under) >= 2
                /\ res.status = StatusNotFound => res.err # NoGetErr

\* "a" was stored in the manifest of "aa" and "ab" and deleted again: get for
\* "a" is ambiguous
C19_Witness ==
    /\ Undone(1, 2) /\ mod[2].path = <<"a">>
    /\ ApiGet(store, resources, mod[2].ref, <<"a">>).status = StatusMultipleChoices
    /\ mod[2].ref # mod[1].ref

\* p and q were called with the same root, path, hash and content type and
\* found the same store contents
SameRun(p, q) ==
    /\ p # q /\ mod[p].pc = "done" /\ mod[q].pc = "done"
    /\ mod[p].key = mod[q].key /\ mod[p].path = mod[q].path
    /\ mod[p].contentHash = mod[q].contentHash
    /\ mod[p].contentType = mod[q].contentType
    /\ mod[p].snap = mod[q].snap

RECURSIVE StoredLeaves(_, _, _)
StoredLeaves(st, key, prefix) ==
    IF key \notin DOMAIN st THEN {}
    ELSE LET r == ReadManifest(st[key])
         IN  IF ~r.ok THEN {}
             ELSE UNION {IF e.ContentType = ManifestType
                         THEN StoredLeaves(st, HashToKey(e.Hash), prefix \o e.Path)
                         ELSE {<<prefix \o e.Path, e.Hash, e.ContentType>>} : e \in r.entries}

OneLeafPerPath(leaves) == \A l1, l2 \in leaves : l1[1] = l2[1] => l1 = l2

\* C21: in every trie snapshot produced by any sequence of modify calls, at
\* most one leaf has a given exact Path: modify with a non-empty hash on a
\* path that already has an entry replaces that entry instead of adding a
\* second one.
C21_OneLeafPerPath ==
    /\ \A h \in handed : h.err = "" => OneLeafPerPath(StoredLeaves(store, h.root, <<>>))
    /\ \A p \in Procs :
          (mod[p].pc = "done" /\ mod[p].ok /\ mod[p].contentHash # EmptyHash) =>
              {l \in StoredLeaves(store, mod[p].ref, <<>>) : l[1] = mod[p].path}
                  = {<<mod[p].path, mod[p].contentHash, mod[p].contentType>>}

\* a modify stored hash q at a path that held hash p, after another modify
C21_Witness ==
    /\ mod[1].pc = "done" /\ mod[1].ok /\ mod[2].pc = "done" /\ mod[2].ok
    /\ mod[2].key = mod[1].ref /\ mod[2].contentHash # EmptyHash
    /\ \E l \in StoredLeaves(store, mod[2].key, <<>>) :
          l[1] = mod[2].path /\ l[2] # mod[2].contentHash
    /\ Cardinality(StoredLeaves(store, mod[2].ref, <<>>)) >= 2

TreeCall == last.op = "BuildDirectoryTree"

\* C22: a content-store failure met by a facade operation (put, modify,
\* addFile, removeFile, appendFile, buildDirectoryTree) is returned to the
\* caller verbatim, as the same error value the store produced, never wrapped
\* or replaced, and no key is returned with it.
C22_StoreErrorVerbatim ==
    (TreeCall /\ last.res.cause # NoErr) =>
        /\ last.res.err = last.res.cause
        /\ last.res.key = NoKey

\* no call that failed is issued again later in the same operation
NoFailedAgain(cs) ==
    \A i, j \in DOMAIN cs :
        (i < j /\ cs[i].failed) => ~(cs[j].to = cs[i].to /\ cs[j].arg = cs[i].arg)

C24_LookupEnds ==
    (lookup.pc = "waiting") ~> (lookup.pc = "done")

\* the leaves of the root of the last call that lie under its prefix
LeavesUnder == {l \in Leaves(store, last.mkey) : IsPrefix(last.path, l[1])}

\* what the walk of the last call had visited when it ended
Walked == listWithPrefix(store, loadManifest(store, last.mkey).trie, last.path)

\* C25: a trie walk that is cancelled or fails part-way never yields a partial
\* result: buildDirectoryTree returns either the complete mapping of all
\* leaves under the prefix or an error with no mapping and no key, never a
\* mapping that holds only the entries visited before the walk stopped.
C25_NoPartialResult ==
    TreeCall =>
        IF last.res.err = NoErr
        THEN /\ last.res.key = last.mkey
             /\ DOMAIN last.res.manifestEntryMap
                    = {Drop(l[1], Len(last.path)) : l \in LeavesUnder}
        ELSE /\ last.res.key = NoKey
             /\ last.res.manifestEntryMap = EmptyFcn

\* the walk had visited an entry when a page could not be loaded
C25_Witness ==
    /\ TreeCall /\ last.res.err # NoErr
    /\ loadManifest(store, last.mkey).ok
    /\ Walked.err # NoErr /\ Walked.seen # {}
    /\ last.res.manifestEntryMap = EmptyFcn

\* C26: buildDirectoryTree(name) returns the resolved root key and a mapping
\* that contains exactly one key per leaf of the trie under the URI's path
\* prefix, the key being the leaf's path suffix relative to that prefix and
\* the value the leaf's entry; no leaf under the prefix is missing and no
\* entry outside it is included.
C26_DirectoryTree ==
    (TreeCall /\ last.res.err = NoErr) =>
        LET map == last.res.manifestEntryMap
        IN  /\ last.res.key = last.mkey
            /\ \A l \in LeavesUnder :
                  /\ Drop(l[1], Len(last.path)) \in DOMAIN map
                  /\ map[Drop(l[1], Len(last.path))].Hash = l[2]
                  /\ map[Drop(l[1], Len(last.path))].ContentType = l[3]
            /\ \A s \in DOMAIN map :
                  /\ map[s].ContentType # ManifestType
                  /\ \E l \in LeavesUnder : l[1] = last.path \o s
            /\ Cardinality(DOMAIN map) = Cardinality(LeavesUnder)

\* of the files "a", "bba" and "bbb" the two under the prefix "b" are listed,
\* as "ba" and "bb", from a page whose path is longer than the prefix
C26_Witness ==
    /\ TreeCall /\ last.res.err = NoErr /\ last.path = <<"b">>
    /\ DOMAIN last.res.manifestEntryMap = {<<"b", "a">>, <<"b", "b">>}
    /\ Cardinality(Leaves(store, last.mkey)) = 3

\* get on a root at a path: the entry found and what is served for it
Resolved(st, root, path) == ApiGet(st, resources, root, path)

\* the paths other than name resolve in the new root as they did in the old one
OthersKept(mkey, name) ==
    \A path \in TriePaths \ {name} :
        Resolved(store', last'.root, path) = Resolved(store, mkey, path)

\* what the claim says of a step of addFile(mkey, d, f, content)
AddFilePost(mkey, d, f, content) ==
    LET name == Join(TrimRoot(d), f)
    IN  /\ last'.err = "" /\ last'.root # NoKey
        /\ last'.content = content
        /\ OthersKept(mkey, name)
        /\ Resolved(store', last'.root, name).contentKey = KeyOf(ContentBlock(content))
        /\ Resolved(store', last'.root, name).status = 0

\* what the claim says of a step of removeFile(mkey, d, f)
RemoveFilePost(mkey, d, f) ==
    LET name == Join(TrimRoot(d), f)
    IN  /\ last'.err = "" /\ last'.root # NoKey
        /\ OthersKept(mkey, name)
        /\ Resolved(store', last'.root, name).status = StatusNotFound

\* C27: addFile and removeFile change only the entry at dirPath/fileName
\* (leading "/" of dirPath trimmed): in the new root every other path
\* resolves to the same entry as in the old root; addFile returns both the
\* stored file's content key and the new root, and get on the new root at
\* dirPath/fileName finds the added file, while after removeFile it finds no
\* entry.
C27_FileEditFrame ==
    [][\A h \in handed, d \in DirPaths, f \in FileNames :
          loadManifest(store, h.root).ok =>
              /\ \A w \in BOOLEAN :
                    AddFile(h.root, d, f, <<"q", "q">>, w) => AddFilePost(h.root, d, f, <<"q", "q">>)
              /\ RemoveFile(h.root, d, f) => RemoveFilePost(h.root, d, f)]_vars
\* one handled message of the node, with what its handler did
PssHandled == {pss.handled[i] : i \in 1..Len(pss.handled)}

\* the payload of the message reached a local handler as it was sent
DeliveredUnchanged(e) ==
    /\ Len(e.out.delivered) = 1
    /\ e.out.delivered[1].msg = e.msg.Payload.Payload
    /\ e.out.delivered[1].topic = e.msg.Payload.Topic
    /\ e.out.delivered[1].sender = e.msg.Payload.SenderOAddr
    /\ e.out.forwarded = <<>>

ForwardedUnchanged(e) == e.out.forwarded = <<e.msg>> /\ e.out.delivered = <<>>

C31_HeaderByNumber ==
    rop.op = "HeaderByNumber" =>
        LET r == MultiResolverResolve(resolvers, rop.addr)
            n == Len(rop.calls)
            hd(i) == BackendHeader(BackendAt(rop.calls[i]), rop.blockNr)
        IN  IF r.err.type = "NoResolverError"
            THEN rop.err = r.err /\ rop.calls = <<>> /\ rop.header = NilHeader
            ELSE /\ n >= 1 /\ rop.calls[1] = r.calls[1]
                 /\ n <= Len(resolvers[rop.calls[1][1]])
                 /\ \A i \in 1..n : rop.calls[i] = <<rop.calls[1][1], i>>
                 /\ \A i \in 1..(n - 1) : hd(i).err # NoErr
                 /\ IF hd(n).err = NoErr
                    THEN rop.header = hd(n).header /\ rop.err = NoErr
                    ELSE /\ n = Len(resolvers[rop.calls[1][1]])
                         /\ rop.header = NilHeader /\ rop.err = hd(n).err

\* the chain of the name's TLD was asked, not the default chain: its first
\* backend, which resolves names, had no header, and the second one served it
C31_Witness ==
    /\ rop.op = "HeaderByNumber" /\ Len(rop.calls) = 2
    /\ rop.calls[1][1] = <<"a">> /\ <<>> \in DOMAIN resolvers
    /\ BackendResolve(BackendAt(rop.calls[1]), rop.addr).err = NoErr
    /\ rop.err = NoErr /\ rop.header # NilHeader
\* the update of the resource is multihash-flagged and its payload is not a
\* well-formed digest record
MalformedCase == LastIsResource /\ LastUpdate.Multihash /\ ~LastUpdate.data.wellFormed

\* C32: get on a resource pointer whose multihash-flagged payload is not a
\* well-formed digest record fails with the decode error and status 500, opens
\* no content reader and loads no manifest after the one it started from
C32_DecodeFailure ==
    MalformedCase =>
        /\ last.res.err = MultihashDecode(LastUpdate.data).err
        /\ last.res.err # NoGetErr
        /\ last.res.status = StatusInternalServerError
        /\ last.res.reader = NoReader /\ last.res.contentKey = NoKey
        /\ last.res.mimeType = <<>>
        /\ \A i \in 2..Len(last.calls) : last.calls[i].to # "loadManifest"

\* the malformed payload held the bytes of the key of a stored manifest, under
\* the store's algorithm: nothing was loaded from it
C32_Witness ==
    /\ MalformedCase
    /\ LastUpdate.data.code = KECCAK_256
    /\ loadManifest(store, LastUpdate.data.digest).ok
    /\ last.res.status = StatusInternalServerError
    /\ Len(last.calls) = 3
\* the lookup a returned ResourceLookup made, and what it made it with
LookupMade == last.calls[1]

\* C33: ResourceLookup selects the lookup by (period, version): the latest
\* update when both are 0, the update of that period when only the version is
\* 0, that exact (period, version) when both are set; it fetches the content
\* of the name only when the lookup succeeded, and otherwise returns the
\* error of the lookup without fetching
C33_LookupSelection ==
    (last.op = "ResourceLookup" /\ last.calls # <<>>) =>
        LET p == last.req.period
            v == last.req.version
        IN  /\ LookupMade.to = (IF p = 0 /\ v = 0 THEN "LookupLatestByName"
                                ELSE IF v = 0 THEN "LookupHistoricalByName"
                                ELSE "LookupVersionByName")
            /\ LookupMade.arg.name = last.req.name
            /\ LookupMade.arg.args = (IF p = 0 /\ v = 0 THEN <<>>
                                      ELSE IF v = 0 THEN <<p>> ELSE <<p, v>>)
            /\ IF LookupMade.failed
               THEN /\ Len(last.calls) = 1
                    /\ last.err = lookup.err /\ last.err # NoGetErr
                    /\ last.key = NoKey /\ last.data = NoPayload
               ELSE /\ Len(last.calls) = 2
                    /\ last.calls[2].to = "GetContent" /\ last.calls[2].arg = last.req.name
                    /\ last.err = GetContent(resources, last.req.name).err
                    /\ last.data = GetContent(resources, last.req.name).data

\* the update of period 2, version 1 was looked up and its content fetched
C33_Witness ==
    /\ last.op = "ResourceLookup" /\ last.req.period = 2 /\ last.req.version = 1
    /\ Len(last.calls) = 2 /\ last.err = NoGetErr
    /\ last.data = Payload(KECCAK_256, TRUE, KeyOf(FixtureManifest))

\* C40: ResourceLookup with a version and the period 0 fails with the
\* invalid-value error "Period can't be 0", returns no key and no data, and
\* makes no call to the resource collaborator
C40_PeriodZero ==
    (last.op = "ResourceLookup" /\ last.req.version # 0 /\ last.req.period = 0) =>
        /\ last.err = NewResourceError(ErrInvalidValue, "Period can't be 0")
        /\ last.key = NoKey /\ last.data = NoPayload
        /\ last.calls = <<>>
        /\ lookup.pc # "waiting"

\* the resource exists with content, and the call for version 2 of period 0 failed
C40_Witness ==
    /\ last.op = "ResourceLookup" /\ last.req.version = 2 /\ last.req.period = 0
    /\ last.err.code = ErrInvalidValue
    /\ last.req.name \in DOMAIN resources /\ resources[last.req.name].synced
\* the last Get found a resource pointer
LastIsPointer ==
    last.op = "Get" /\ LastEntry # NoEntry /\ LastEntry.ContentType = ResourceContentType

\* C34: get on a missing resource: when the entry is a resource pointer and
\* the lookup of the latest update, or the fetch of the content after it,
\* fails, get returns that error with status 404 and no content reader, and
\* loads no further manifest
C34_MissingResource ==
    (LastIsPointer /\ ~LastIsResource) =>
        /\ last.res.err = (IF LastEntry.Hash \notin DOMAIN resources
                           THEN GetErr("resource not found")
                           ELSE GetErr("resource content not available"))
        /\ last.res.status = StatusNotFound
        /\ last.res.reader = NoReader /\ last.res.contentKey = NoKey
        /\ last.calls[Len(last.calls)].failed
        /\ last.calls[Len(last.calls)].to =
              (IF LastEntry.Hash \notin DOMAIN resources THEN "LookupLatestByName"
               ELSE "GetContent")
        /\ \A i \in 2..Len(last.calls) : last.calls[i].to # "loadManifest"

\* the lookup succeeded, the update is multihash-flagged and names a stored
\* manifest, but its content could not be fetched
C34_Witness ==
    /\ LastIsPointer /\ LastEntry.Hash \in DOMAIN resources
    /\ ~resources[LastEntry.Hash].synced /\ resources[LastEntry.Hash].Multihash
    /\ loadManifest(store, resources[LastEntry.Hash].data.digest).ok
    /\ last.res.status = StatusNotFound /\ Len(last.calls) = 3
\* C35: addFile, removeFile and appendFile return normally, with a result or
\* an error value, for every dirPath, the empty one included: no call of
\* theirs ends in a panic
C35_ReturnsNormally ==
    last.op \in {"AddFile", "RemoveFile", "AppendFile"} =>
        last.err # "panic: slice bounds out of range"
\* the status hints that tell of no content
NoContentHints ==
    {StatusMultipleChoices, StatusNotFound, StatusUnprocessableEntity, StatusInternalServerError}

\* C36: in every return of get a content reader is present only if the error
\* is empty and the status hint is none of 300, 404, 422, 500; whenever the
\* error is not empty or the hint is one of these, no reader is returned
C36_OutcomeConsistency ==
    last.op = "Get" =>
        /\ last.res.reader # NoReader =>
              last.res.err = NoGetErr /\ last.res.status \notin NoContentHints
        /\ (last.res.err # NoGetErr \/ last.res.status \in NoContentHints) =>
              last.res.reader = NoReader
\* the calls the last Get made to the resource collaborator
ResourceCallsMade ==
    {i \in 1..Len(last.calls) : last.calls[i].to \in {"LookupLatestByName", "GetContent"}}

\* the entry found in the manifest behind the digest of a multihash update
EntryBehind ==
    LET m == loadManifest(store, LastUpdate.data.digest)
    IN  IF m.ok THEN getEntry(store, m.trie, last.path) ELSE NoEntry

\* C37: get follows at most one resource pointer: the resource collaborator is
\* asked about one name at most, once for the latest update and once for its
\* content, and a pointer found in the manifest behind a multihash update is
\* served as the entry it is, not dereferenced
C37_OneIndirection ==
    last.op = "Get" =>
        /\ \A i \in ResourceCallsMade : LastIsPointer /\ last.calls[i].arg = LastEntry.Hash
        /\ \A i, j \in ResourceCallsMade : last.calls[i].to = last.calls[j].to => i = j
        /\ (MultihashCase /\ EntryBehind # NoEntry
            /\ EntryBehind.ContentType = ResourceContentType) =>
               /\ last.res = GetServe(EntryBehind)
               /\ last.res.err = NoGetErr /\ last.res.mimeType = ResourceContentType
               /\ Len(last.calls) = 4

\* the update of r1 names the manifest that holds the pointer to r1 itself: get
\* for "aa" came upon the pointer a second time and served it as an entry
C37_Witness ==
    /\ MultihashCase /\ last.path = <<"a", "a">>
    /\ last.key = KeyOf(FixturePointerPage) /\ LastUpdate.data.digest = last.key
    /\ EntryBehind # NoEntry /\ EntryBehind.ContentType = ResourceContentType
    /\ EntryBehind.Hash \in DOMAIN resources
    /\ last.res.reader # NoReader
    /\ last.res.status = 0
\* C38: for a URI that is not immutable whose address is itself a well-formed
\* hex content hash, with a resolver configured, Api.Resolve asks the resolver
\* first and returns the resolver's hash whenever the resolver succeeds; the
\* address as a hash is returned only when the resolver fails
C38_ResolverBeforeHash ==
    (/\ rop.op = "ApiResolve" /\ rop.scheme # "bzz-immutable"
     /\ dnsSet /\ isHexHash(rop.addr)) =>
        LET r == MultiResolverResolve(resolvers, rop.addr)
        IN  /\ rop.asked /\ rop.calls = r.calls /\ rop.err = NoErr
            /\ rop.key = (IF r.err = NoErr THEN r.h ELSE Hex2Bytes(rop.addr))
            /\ rop.key = Hex2Bytes(rop.addr) => r.err # NoErr

\* the address "aa" is a hash; the first backend failed, the second resolved it
\* to its own hash, which was returned
C38_Witness ==
    /\ rop.op = "ApiResolve" /\ rop.scheme = "bzz" /\ dnsSet
    /\ isHexHash(rop.addr) /\ Len(rop.calls) = 2
    /\ BackendResolve(BackendAt(rop.calls[1]), rop.addr).err # NoErr
    /\ rop.key = BackendResolve(BackendAt(rop.calls[2]), rop.addr).h
    /\ rop.key # Hex2Bytes(rop.addr)
\* a failed Put as the last result
PutHasFailed == last.op = "Put" /\ last.err # ""

\* what a failed Put returns: no key, no wait function, the error of the Store
\* call it made last, and no call after the one that failed
PutFailureResult ==
    /\ PutHasFailed =>
          /\ last.root = NoKey /\ last.waits = {} /\ last \notin handed
          /\ last.calls[Len(last.calls)].failed
          /\ \A i \in 1..(Len(last.calls) - 1) : ~last.calls[i].failed
          /\ last.err = (IF Len(last.calls) = 1 THEN "store error 1" ELSE "store error 2")
    /\ \A h \in handed : h.op = "Put" => h.err = "" /\ h.root # NoKey
    /\ waiter.pc # "idle" => \E h \in handed : h.err = "" /\ h.root = waiter.root

\* what a failing Put writes: nothing when the content write failed, the
\* content block alone when the manifest write failed
PutFailureWrites ==
    (last.op = "none" /\ PutHasFailed') =>
        /\ handed' = handed /\ store' = store
        /\ pending' = (IF Len(last'.calls) = 1 THEN pending
                       ELSE Issue(store, pending, last'.calls[1].arg))

\* C39: when the content write of put fails no manifest write is issued; when
\* either write fails put returns the error of the store with no key and no
\* completion signal, and no root key of a failed put is ever with a caller
C39_PutFailure == [](PutFailureResult) /\ [][PutFailureWrites]_vars

\* the content write was issued and is under way, the manifest write failed
C39_Witness ==
    /\ last.op = "Put" /\ last.err = "store error 2" /\ Len(last.calls) = 2
    /\ DOMAIN pending = {KeyOf(last.calls[1].arg)}
    /\ handed = {}

====
